---- MODULE Spec2Model ----
(***************************************************************************)
(* Verification model of the email-bdc-agent clustering / merge / grouping *)
(* core:                                                                   *)
(*   - similarity engine and union-find clusterer (lib/clustering)         *)
(*   - date-group classifier, bid construction, cluster merge and grouped  *)
(*     list builder (lib/bids/grouping)                                    *)
(*                                                                         *)
(* Conventions                                                             *)
(*   - A JavaScript string is a sequence of one-character strings, so that *)
(*     toLowerCase, trim and the regular-expression replacements are       *)
(*     computed and not assumed.                                           *)
(*   - null / undefined is Null for a string, NullDate for a Date and the  *)
(*     empty sequence for an object (an object that is present is a        *)
(*     one-element sequence).                                              *)
(*   - A Date is its timestamp counted in ticks (TicksPerDay ticks in a    *)
(*     local calendar day, tick 0 = local midnight, the last tick =        *)
(*     23:59:59.999); an Invalid Date (timestamp NaN) is InvalidDate.      *)
(*   - Scores and weights are exact rationals: a field score is an integer *)
(*     number of 1/ScoreScale, a weight and a threshold an integer number  *)
(*     of hundredths.                                                      *)
(***************************************************************************)
EXTENDS Integers, Sequences, FiniteSets, TLC

\* null / undefined where a string is expected; no string of the program equals it
Null == <<"null-value">>

(***************************************************************************)
(* Generic sequence helpers                                                *)
(***************************************************************************)
Range(s) == {s[i] : i \in 1..Len(s)}

\* the same sequence with its elements computed once (evaluation order only)
Eager(s) == s \o <<>>

RECURSIVE SelectIdx(_, _, _)
\* indices i >= from of s (ascending) with keep[i]
SelectIdx(keep, from, n) ==
  IF from > n THEN <<>>
  ELSE (IF keep[from] THEN <<from>> ELSE <<>>) \o SelectIdx(keep, from + 1, n)

RECURSIVE FlatMap(_)
\* concatenation of a sequence of sequences (Array.prototype.flatMap)
FlatMap(ss) == IF ss = <<>> THEN <<>> ELSE Head(ss) \o FlatMap(Tail(ss))

RECURSIVE SumSeq(_)
SumSeq(s) == IF s = <<>> THEN 0 ELSE Head(s) + SumSeq(Tail(s))

\* first-occurrence de-duplication, insertion order kept ([...new Set(xs)])
RECURSIVE Dedup(_)
Dedup(s) ==
  IF s = <<>> THEN <<>>
  ELSE LET init == Dedup(SubSeq(s, 1, Len(s) - 1))
           last == s[Len(s)]
       IN IF last \in Range(init) THEN init ELSE Append(init, last)

(***************************************************************************)
(* Characters and strings                                                  *)
(***************************************************************************)
UpperChars == {"A", "B", "C", "R", "E", "F", "W", "D", "Y"}
LowerOf == ("A" :> "a") @@ ("B" :> "b") @@ ("C" :> "c") @@ ("R" :> "r") @@
           ("E" :> "e") @@ ("F" :> "f") @@ ("W" :> "w") @@ ("D" :> "d") @@
           ("Y" :> "y")

\* \s of the regular expressions and of String.prototype.trim
IsSpace(c) == c \in {" ", "\t"}
\* \w of the regular expressions
IsWord(c) == c \in {"a", "b", "c", "d", "e", "f", "h", "i", "k", "l", "m", "n",
                    "o", "r", "s", "t", "v", "w", "y", "z",
                    "0", "1", "2", "9", "_"} \cup UpperChars

ToLowerCase(s) ==
  Eager([i \in 1..Len(s) |-> IF s[i] \in UpperChars THEN LowerOf[s[i]] ELSE s[i]])

RECURSIVE TrimLeft(_)
TrimLeft(s) == IF s # <<>> /\ IsSpace(Head(s)) THEN TrimLeft(Tail(s)) ELSE s

RECURSIVE TrimRight(_)
TrimRight(s) ==
  IF s # <<>> /\ IsSpace(s[Len(s)]) THEN TrimRight(SubSeq(s, 1, Len(s) - 1)) ELSE s

Trim(s) == TrimRight(TrimLeft(s))

StartsWith(s, p) == Len(s) >= Len(p) /\ SubSeq(s, 1, Len(p)) = p

\* .replace(/^(re:|fwd:|fw:)\s*/gi, ""): anchored at the start, so at most one
\* prefix is removed, together with the white space after it
StripReplyPrefix(s) ==
  LET low == ToLowerCase(s)
      plen == IF StartsWith(low, <<"r", "e", ":">>) THEN 3
              ELSE IF StartsWith(low, <<"f", "w", "d", ":">>) THEN 4
              ELSE IF StartsWith(low, <<"f", "w", ":">>) THEN 3
              ELSE 0
  IN IF plen = 0 THEN s ELSE TrimLeft(SubSeq(s, plen + 1, Len(s)))

\* .replace(/\s+/g, " ")
RECURSIVE CollapseSpaces(_)
CollapseSpaces(s) ==
  IF s = <<>> THEN <<>>
  ELSE IF IsSpace(Head(s)) THEN <<" ">> \o CollapseSpaces(TrimLeft(s))
  ELSE <<Head(s)>> \o CollapseSpaces(Tail(s))

\* .replace(/[^\w\s-]/g, "")
StripSpecial(s) == SelectSeq(s, LAMBDA c : IsWord(c) \/ IsSpace(c) \/ c = "-")

\* .replace(/\s+/g, "") of compareTwoStrings
RemoveSpaces(s) == SelectSeq(s, LAMBDA c : ~IsSpace(c))

normalizeString(str) ==
  IF str = Null \/ str = <<>> THEN <<>>
  ELSE StripSpecial(CollapseSpaces(StripReplyPrefix(Trim(ToLowerCase(str)))))

(***************************************************************************)
(* String similarity.  A score is an integer number of 1/ScoreScale.       *)
(***************************************************************************)
ScoreScale == 8 * 105

Bigrams(s) == Eager([i \in 1..(Len(s) - 1) |-> <<s[i], s[i + 1]>>])

Count(s, x) == Cardinality({i \in 1..Len(s) : s[i] = x})

\* Dice coefficient of the string-similarity package: the bigrams of the second
\* string are matched one for one against the bigram multiset of the first
\* intersectionSize: the k-th bigram of the second string matches while copies
\* of it are left among the bigrams of the first
IntersectionSize(b1, b2) ==
  SumSeq([k \in 1..Len(b2) |->
            IF Count(SubSeq(b2, 1, k), b2[k]) <= Count(b1, b2[k]) THEN 1 ELSE 0])

\* the score of two strings already stripped of white space
DiceCoefficient(first, second) ==
  IF first = second THEN ScoreScale
  ELSE IF Len(first) < 2 \/ Len(second) < 2 THEN 0
  ELSE (2 * IntersectionSize(Bigrams(first), Bigrams(second)) * ScoreScale)
         \div (Len(first) + Len(second) - 2)

compareTwoStrings(first0, second0) ==
  DiceCoefficient(RemoveSpaces(first0), RemoveSpaces(second0))

\* the score of two normalized strings
NormalizedSimilarity(normalized1, normalized2) ==
  IF normalized1 = <<>> /\ normalized2 = <<>> THEN 0
  ELSE IF normalized1 = <<>> \/ normalized2 = <<>> THEN 0
  ELSE IF normalized1 = normalized2 THEN ScoreScale
  ELSE compareTwoStrings(normalized1, normalized2)

calculateStringSimilarity(value1, value2) ==
  NormalizedSimilarity(normalizeString(value1), normalizeString(value2))

(***************************************************************************)
(* Array.prototype.sort, as a stable insertion sort over the positions     *)
(* 1..n of an array; gt[i, j] is "comparator(item i, item j) > 0".         *)
(***************************************************************************)
RECURSIVE InsertIdx(_, _, _)
InsertIdx(sorted, x, gt) ==
  IF sorted = <<>> THEN <<x>>
  ELSE LET last == sorted[Len(sorted)]
       IN IF gt[last, x]
          THEN Append(InsertIdx(SubSeq(sorted, 1, Len(sorted) - 1), x, gt), last)
          ELSE Append(sorted, x)

RECURSIVE SortIdx(_, _)
SortIdx(n, gt) == IF n = 0 THEN <<>> ELSE InsertIdx(SortIdx(n - 1, gt), n, gt)

(***************************************************************************)
(* Similarity engine                                                       *)
(***************************************************************************)
SignalNames == <<"subject", "projectName", "address", "gc", "engineer", "architect">>

\* the field of an EmailForClustering that a signal compares
SignalValue(signal, email) ==
  CASE signal = "subject" -> email.subject
    [] signal = "projectName" -> email.projectName
    [] signal = "address" -> email.projectAddress
    [] signal = "gc" -> email.generalContractor
    [] signal = "engineer" -> email.engineer
    [] signal = "architect" -> email.architect

calculateSignalSimilarity(signal, email1, email2, weight) ==
  [signal |-> signal,
   weight |-> weight,
   value1 |-> SignalValue(signal, email1),
   value2 |-> SignalValue(signal, email2),
   score |-> calculateStringSimilarity(SignalValue(signal, email1), SignalValue(signal, email2))]

\* JavaScript truthiness of a string | null
Truthy(v) == v # Null /\ v # <<>>

\* overallScore = weightedSum / (totalWeight * ScoreScale), 0 when totalWeight = 0
\* variant: every signal counts towards the denominator
TotalWeight_AllSignals(signals) == SumSeq([k \in 1..Len(signals) |-> signals[k].weight])

\* if (signal.value1 || signal.value2)
SignalCounted(signal) == Truthy(signal.value1) \/ Truthy(signal.value2)

TotalWeight(signals) ==
  SumSeq([k \in 1..Len(signals) |-> IF SignalCounted(signals[k]) THEN signals[k].weight ELSE 0])

WeightedSum(signals) ==
  SumSeq([k \in 1..Len(signals) |->
            IF SignalCounted(signals[k]) THEN signals[k].score * signals[k].weight ELSE 0])

\* the EmailSimilarity of the two emails, given the six SimilaritySignals
SimilarityOfSignals(email1, email2, signals) ==
  [emailId1 |-> email1.emailId,
   emailId2 |-> email2.emailId,
   signals |-> signals,
   totalWeight |-> TotalWeight(signals),
   weightedSum |-> IF TotalWeight(signals) > 0 THEN WeightedSum(signals) ELSE 0]

calculateEmailSimilarity(email1, email2, config) ==
  SimilarityOfSignals(email1, email2,
    Eager([k \in 1..Len(SignalNames) |->
             calculateSignalSimilarity(SignalNames[k], email1, email2,
                                       config.signalWeights[SignalNames[k]])]))

\* similarity.overallScore >= threshold (threshold in hundredths)
ScoreAtLeast(sim, threshold) ==
  IF sim.totalWeight > 0
  THEN sim.weightedSum * 100 >= threshold * sim.totalWeight * ScoreScale
  ELSE 0 >= threshold

\* a.overallScore < b.overallScore
ScoreLess(a, b) ==
  LET wa == IF a.totalWeight > 0 THEN a.totalWeight ELSE 1
      wb == IF b.totalWeight > 0 THEN b.totalWeight ELSE 1
  IN a.weightedSum * wb < b.weightedSum * wa

\* the pairs (i, j), i < j, in the order of the two nested loops
PairList(n) ==
  FlatMap([i \in 1..n |-> [d \in 1..(n - i) |-> <<i, i + d>>]])

\* items in the order given by the positions of order
Reorder(items, order) == Eager([k \in 1..Len(order) |-> items[order[k]]])

\* similarities.sort((a, b) => b.overallScore - a.overallScore)
SortByScore(similarities) ==
  Reorder(similarities,
          SortIdx(Len(similarities),
                  [i \in 1..Len(similarities), j \in 1..Len(similarities) |->
                     ScoreLess(similarities[i], similarities[j])]))

\* the similarity of every pair of pairs, in order
PairSimilarities(emails, config, pairs) ==
  Eager([k \in 1..Len(pairs) |->
           calculateEmailSimilarity(emails[pairs[k][1]], emails[pairs[k][2]], config)])

calculateSimilarityMatrix(emails, config) ==
  SortByScore(SelectSeq(PairSimilarities(emails, config, PairList(Len(emails))),
                        LAMBDA s : ScoreAtLeast(s, config.similarityThreshold)))

\* Map threadId -> emails, as the sequence of the map's entries in insertion order
groupByThread(emails) ==
  LET ids == Dedup([k \in 1..Len(emails) |-> emails[k].threadId])
  IN [t \in 1..Len(ids) |-> SelectSeq(emails, LAMBDA e : e.threadId = ids[t])]

\* variant: the similarity score alone decides, the thread is not looked at
areSameProject_ScoreOnly(email1, email2, config) ==
  ScoreAtLeast(calculateEmailSimilarity(email1, email2, config), config.similarityThreshold)

areSameProject(email1, email2, config) ==
  IF email1.threadId = email2.threadId THEN TRUE
  ELSE ScoreAtLeast(calculateEmailSimilarity(email1, email2, config), config.similarityThreshold)

(***************************************************************************)
(* UnionFind: keys in Map insertion order, parent and rank maps            *)
(***************************************************************************)
UFEmpty == [keys |-> <<>>, parent |-> <<>>, rank |-> <<>>]

\* position of key x in uf.keys, 0 when absent
KeyPos(uf, x) ==
  IF x \in Range(uf.keys) THEN CHOOSE i \in 1..Len(uf.keys) : uf.keys[i] = x ELSE 0

UFParent(uf, x) == uf.parent[KeyPos(uf, x)]
UFRank(uf, x) == uf.rank[KeyPos(uf, x)]

\* if (!this.parent.has(x)) { parent.set(x, x); rank.set(x, 0) }
UFAdd(uf, x) ==
  IF x \in Range(uf.keys) THEN uf
  ELSE [keys |-> Append(uf.keys, x), parent |-> Append(uf.parent, x), rank |-> Append(uf.rank, 0)]

\* the keys visited by find(x): x, parent(x), ... up to the root; fuel bounds the
\* walk so that the operator is defined on a malformed parent map too
RECURSIVE UFPath(_, _, _)
UFPath(uf, x, fuel) ==
  IF UFParent(uf, x) = x \/ fuel = 0 THEN <<x>>
  ELSE <<x>> \o UFPath(uf, UFParent(uf, x), fuel - 1)

\* find with path compression: every key on the path is re-pointed to the root
UFFind(uf0, x) ==
  LET uf == UFAdd(uf0, x)
      path == UFPath(uf, x, Len(uf.keys))
      root == path[Len(path)]
  IN [uf |-> [uf EXCEPT !.parent = Eager([i \in 1..Len(uf.keys) |->
                                      IF uf.keys[i] \in Range(path) /\ uf.keys[i] # root
                                      THEN root ELSE uf.parent[i]])],
      root |-> root]

\* variant: the root of y always goes under the root of x
UFUnion_RootYUnderRootX(uf0, x, y) ==
  LET fx == UFFind(uf0, x)
      fy == UFFind(fx.uf, y)
      px == KeyPos(fy.uf, fx.root)
      py == KeyPos(fy.uf, fy.root)
  IN IF fx.root = fy.root THEN fy.uf
     ELSE IF UFRank(fy.uf, fx.root) = UFRank(fy.uf, fy.root)
     THEN [fy.uf EXCEPT !.parent[py] = fx.root, !.rank[px] = @ + 1]
     ELSE [fy.uf EXCEPT !.parent[py] = fx.root]

UFUnion(uf0, x, y) ==
  LET fx == UFFind(uf0, x)
      fy == UFFind(fx.uf, y)
      uf == fy.uf
      rootX == fx.root
      rootY == fy.root
      rankX == UFRank(uf, rootX)
      rankY == UFRank(uf, rootY)
      px == KeyPos(uf, rootX)
      py == KeyPos(uf, rootY)
  IN IF rootX = rootY THEN uf
     ELSE IF rankX < rankY THEN [uf EXCEPT !.parent[px] = rootY]
     ELSE IF rankX > rankY THEN [uf EXCEPT !.parent[py] = rootX]
     ELSE [uf EXCEPT !.parent[py] = rootX, !.rank[px] = rankX + 1]

\* the finds of getGroups, key after key
RECURSIVE UFFindAll(_, _)
UFFindAll(uf, k) ==
  IF k = 0 THEN [uf |-> uf, roots |-> <<>>]
  ELSE LET prev == UFFindAll(uf, k - 1)
           f == UFFind(prev.uf, uf.keys[k])
       IN [uf |-> f.uf, roots |-> Append(prev.roots, f.root)]

\* Map root -> members, as the sequence of its values in insertion order
UFGetGroups(uf) ==
  LET roots == UFFindAll(uf, Len(uf.keys)).roots
      order == Dedup(roots)
  IN [g \in 1..Len(order) |->
        LET idx == SelectIdx([i \in 1..Len(roots) |-> roots[i] = order[g]], 1, Len(roots))
        IN [i \in 1..Len(idx) |-> uf.keys[idx[i]]]]

(***************************************************************************)
(* Rule-based clustering                                                   *)
(***************************************************************************)
RECURSIVE UFFindEach(_, _)
\* for (const email of emails) uf.find(email.emailId)
UFFindEach(uf, ids) ==
  IF ids = <<>> THEN uf ELSE UFFindEach(UFFind(uf, Head(ids)).uf, Tail(ids))

RECURSIVE UFUnionEach(_, _)
UFUnionEach(uf, edges) ==
  IF edges = <<>> THEN uf
  ELSE UFUnionEach(UFUnion(uf, Head(edges)[1], Head(edges)[2]), Tail(edges))

\* first pass: every thread with more than one email is joined to its first email
ThreadEdges(emails) ==
  LET threads == groupByThread(emails)
  IN FlatMap([t \in 1..Len(threads) |->
       [i \in 1..(Len(threads[t]) - 1) |-> <<threads[t][1].emailId, threads[t][i + 1].emailId>>]])

\* the pair of email ids of each similarity
EdgesOf(similarities) ==
  [k \in 1..Len(similarities) |-> <<similarities[k].emailId1, similarities[k].emailId2>>]

\* variant: only the best-scoring pair of the similarity matrix is joined
SimilarityEdges_BestOnly(emails, config) ==
  LET edges == EdgesOf(calculateSimilarityMatrix(emails, config))
  IN IF Len(edges) = 0 THEN <<>> ELSE <<edges[1]>>

\* second pass: every pair of the similarity matrix, best score first
SimilarityEdges(emails, config) == EdgesOf(calculateSimilarityMatrix(emails, config))

\* variant: the emails are not registered before the union passes
ruleBasedCluster_NoInitialFind(emails, config) ==
  LET uf1 == UFUnionEach(UFEmpty, ThreadEdges(emails))
      uf2 == UFUnionEach(uf1, SimilarityEdges(emails, config))
  IN UFGetGroups(uf2)

ruleBasedCluster(emails, config) ==
  LET uf0 == UFFindEach(UFEmpty, [k \in 1..Len(emails) |-> emails[k].emailId])
      uf1 == UFUnionEach(uf0, ThreadEdges(emails))
      uf2 == UFUnionEach(uf1, SimilarityEdges(emails, config))
  IN UFGetGroups(uf2)

\* ids of the clusters in the order they are generated; every generated id is
\* non-empty and differs from the others and from every email id
\* variant: the last of the most frequent values wins
BestOfCounts_LastWins(values, keys, k, best, bestCount) ==
  LET last == SelectSeq(keys, LAMBDA v :
                \A w \in Range(keys) : Count(values, w) <= Count(values, v))
  IN last[Len(last)]

RECURSIVE BestOfCounts(_, _, _, _, _)
\* for (const [value, count] of counts) if (count > bestCount) ...: the loop
\* from the k-th key of the Map on
BestOfCounts(values, keys, k, best, bestCount) ==
  IF k > Len(keys) THEN best
  ELSE IF Count(values, keys[k]) > bestCount
       THEN BestOfCounts(values, keys, k + 1, keys[k], Count(values, keys[k]))
       ELSE BestOfCounts(values, keys, k + 1, best, bestCount)

\* findBestValue on the values the getter returns; the keys of counts are in
\* insertion order
BestValue(values) ==
  IF Len(values) = 0 THEN Null
  ELSE BestOfCounts(values, Dedup(values), 1, values[1], 0)

findBestValue(members, field) ==
  BestValue(SelectSeq([k \in 1..Len(members) |-> members[k][field]], LAMBDA v : v # Null))

extractClusterInfo(members) ==
  [name |-> findBestValue(members, "projectName"),
   address |-> findBestValue(members, "projectAddress"),
   generalContractor |-> findBestValue(members, "generalContractor"),
   engineer |-> findBestValue(members, "engineer"),
   architect |-> findBestValue(members, "architect")]

GeneratedClusterIds == <<"c1", "c2", "c3", "c4", "c5", "c6">>

\* one ProjectCluster per group, in the order of the groups
ClustersOfGroups(groups) ==
  Eager([g \in 1..Len(groups) |->
           [id |-> GeneratedClusterIds[g], emailIds |-> groups[g],
            clusteringMethod |-> "rule_based"]])

\* clusters.sort((a, b) => b.emailIds.length - a.emailIds.length)
SortBySize(clusters) ==
  Reorder(clusters,
          SortIdx(Len(clusters),
                  [i \in 1..Len(clusters), j \in 1..Len(clusters) |->
                     Len(clusters[j].emailIds) - Len(clusters[i].emailIds) > 0]))

clusterEmailsRuleBased(emails, config) ==
  IF Len(emails) = 0
  THEN [clusters |-> <<>>, unclustered |-> <<>>, method |-> "rule_based"]
  ELSE [clusters |-> SortBySize(ClustersOfGroups(ruleBasedCluster(emails, config))),
        unclustered |-> <<>>,
        method |-> "rule_based"]

(***************************************************************************)
(* Dates.  A timestamp is a number of ticks; day d (d = 0 is a Monday)     *)
(* holds the ticks d * TicksPerDay .. d * TicksPerDay + TicksPerDay - 1.   *)
(***************************************************************************)
TicksPerDay == 3

NullDate == [kind |-> "null", t |-> 0]
InvalidDate == [kind |-> "invalid", t |-> 0]
DateAt(t) == [kind |-> "date", t |-> t]

\* date-fns on timestamps
startOfDay(t) == t - (t % TicksPerDay)
addDays(t, amount) == t + amount * TicksPerDay
addWeeks(t, amount) == addDays(t, 7 * amount)
\* 0 = Monday .. 6 = Sunday
WeekdayMondayFirst(t) == (t \div TicksPerDay) % 7
\* endOfWeek(t, { weekStartsOn: 1 }): the Sunday of t's week at 23:59:59.999
endOfWeek(t) == startOfDay(t) + (6 - WeekdayMondayFirst(t)) * TicksPerDay + (TicksPerDay - 1)

\* the predicates take a Date that is not null; every comparison with the NaN
\* timestamp of an Invalid Date is false
\* variant: the start of today itself counts as before today
isBefore_OrEqual(date, t) == date.kind = "date" /\ date.t <= t

isBefore(date, t) == date.kind = "date" /\ date.t < t
isSameDay(date, t) == date.kind = "date" /\ startOfDay(date.t) = startOfDay(t)
isToday(date, now) == isSameDay(date, now)
isTomorrow(date, now) == isSameDay(date, addDays(now, 1))
\* date-fns 3 and later: the two ends of the interval are put in order first
isWithinInterval(date, start, end) ==
  LET startTime == IF start <= end THEN start ELSE end
      endTime == IF start <= end THEN end ELSE start
  IN date.kind = "date" /\ date.t >= startTime /\ date.t <= endTime

getDateGroup(date, now) ==
  LET today == startOfDay(now)
      tomorrow == addDays(today, 1)
      endOfThisWeek == endOfWeek(now)
      endOfNextWeek == endOfWeek(addWeeks(now, 1))
  IN IF date.kind = "null" THEN "no_date"
     ELSE IF isBefore(date, today) THEN "overdue"
     ELSE IF isToday(date, now) THEN "today"
     ELSE IF isTomorrow(date, now) THEN "tomorrow"
     ELSE IF isWithinInterval(date, addDays(tomorrow, 1), endOfThisWeek) THEN "this_week"
     ELSE IF isWithinInterval(date, addDays(endOfThisWeek, 1), endOfNextWeek) THEN "next_week"
     ELSE "later"

DateGroups == <<"overdue", "today", "tomorrow", "this_week", "next_week", "later", "no_date">>

\* variant: today ranks before overdue
DateGroupPriority_TodayFirst ==
  [overdue |-> 1, today |-> 0, tomorrow |-> 2, this_week |-> 3, next_week |-> 4,
   later |-> 5, no_date |-> 6]

DateGroupPriority ==
  [overdue |-> 0, today |-> 1, tomorrow |-> 2, this_week |-> 3, next_week |-> 4,
   later |-> 5, no_date |-> 6]

(***************************************************************************)
(* Array.prototype.sort when the comparator may return NaN.  With a        *)
(* consistent comparator the result is the stable sort.  With a NaN        *)
(* timestamp among the items the comparator is inconsistent and the order  *)
(* is implementation-defined: every order is possible in which no two      *)
(* neighbours are out of order and an item stands before an item that      *)
(* preceded it only if the comparator put it before some item.             *)
(***************************************************************************)
Perms(n) == {p \in [1..n -> 1..n] : \A i, j \in 1..n : p[i] = p[j] => i = j}

SortOutcomes(n, gt, consistent) ==
  IF consistent THEN {SortIdx(n, gt)}
  ELSE {Eager(p) : p \in {q \in Perms(n) :
          /\ \A k \in 1..(n - 1) : ~gt[q[k], q[k + 1]]
          /\ \A a, b \in 1..n : (a < b /\ q[a] > q[b]) => \E z \in 1..n : gt[z, q[a]]}}

RECURSIVE SeqProduct(_)
\* all sequences that take their k-th element from the k-th set
SeqProduct(sets) ==
  IF sets = <<>> THEN {<<>>}
  ELSE {<<x>> \o rest : x \in Head(sets), rest \in SeqProduct(Tail(sets))}

(***************************************************************************)
(* Bid construction                                                        *)
(***************************************************************************)
\* parseISO of a "YYYY-MM-DD" string: local midnight of the day it names, or an
\* Invalid Date when it names no calendar day (such as "2024-02-30")
parseISO(dateString) ==
  IF dateString.calendarDay THEN DateAt(dateString.day * TicksPerDay) ELSE InvalidDate

\* a ?? b on strings
Coalesce(a, b) == IF a # Null THEN a ELSE b

mapBidderSource(source) == Coalesce(source, <<"b", "o", "d", "y">>)

\* Purchaser | null, as a sequence of at most one Purchaser
createPurchaserFromExtraction(extraction, now) ==
  IF extraction.purchaser = <<>> \/ ~Truthy(extraction.purchaser[1].companyName) THEN <<>>
  ELSE
    LET dueDate == IF Len(extraction.bidDueDates) > 0
                   THEN parseISO(extraction.bidDueDates[1].date) ELSE NullDate
        dueTime == IF Len(extraction.bidDueDates) > 0
                   THEN extraction.bidDueDates[1].time ELSE Null
    IN <<[companyName |-> extraction.purchaser[1].companyName,
          contactName |-> extraction.purchaser[1].contactName,
          dueDate |-> dueDate,
          dueTime |-> dueTime,
          emailId |-> extraction.emailId,
          source |-> mapBidderSource(extraction.purchaser[1].source),
          dateGroup |-> getDateGroup(dueDate, now)]>>

\* cluster?.project?.name ?? extraction.projectSignals?.projectName ?? null
ProjectField(cluster, extraction, field, signalField) ==
  LET fromCluster == IF cluster = <<>> THEN Null ELSE cluster[1].project[field]
      fromSignals == IF extraction.projectSignals = <<>> THEN Null
                     ELSE extraction.projectSignals[1][signalField]
  IN Coalesce(fromCluster, fromSignals)

createBidFromExtraction(extraction, email, cluster, now) ==
  LET bidDueDate == IF Len(extraction.bidDueDates) > 0
                    THEN parseISO(extraction.bidDueDates[1].date) ELSE NullDate
      bidDueTime == IF Len(extraction.bidDueDates) > 0 /\ Truthy(extraction.bidDueDates[1].time)
                    THEN extraction.bidDueDates[1].time ELSE Null
  IN [id |-> extraction.emailId,
      projectName |-> ProjectField(cluster, extraction, "name", "projectName"),
      projectAddress |-> ProjectField(cluster, extraction, "address", "projectAddress"),
      purchasers |-> createPurchaserFromExtraction(extraction, now),
      sellerName |-> IF extraction.inferredSeller = <<>> THEN Null
                     ELSE extraction.inferredSeller[1].name,
      sellerEmail |-> IF extraction.inferredSeller = <<>> THEN Null
                      ELSE extraction.inferredSeller[1].email,
      earliestDueDate |-> bidDueDate,
      earliestDueTime |-> bidDueTime,
      emailIds |-> <<extraction.emailId>>,
      emails |-> <<email>>,
      extractions |-> <<extraction>>,
      cluster |-> cluster,
      dateGroup |-> getDateGroup(bidDueDate, now),
      status |-> "pending"]

(***************************************************************************)
(* Cluster merge                                                           *)
(***************************************************************************)
\* variant: the key is lowercased but not trimmed
PurchaserKey_NoTrim(purchaser) == ToLowerCase(purchaser.companyName)

\* purchaser.companyName.toLowerCase().trim()
PurchaserKey(purchaser) == Trim(ToLowerCase(purchaser.companyName))

RECURSIVE DedupPurchasers(_)
\* purchaserMap: the first purchaser of each key, in the order the keys appeared
DedupPurchasers(ps) ==
  IF ps = <<>> THEN <<>>
  ELSE LET init == DedupPurchasers(SubSeq(ps, 1, Len(ps) - 1))
           last == ps[Len(ps)]
       IN IF \E k \in 1..Len(init) : PurchaserKey(init[k]) = PurchaserKey(last)
          THEN init ELSE Append(init, last)

\* bid.cluster?.id is truthy
HasClusterId(bid) == bid.cluster # <<>> /\ bid.cluster[1].id # ""

\* the values allDates[0] can take: the dates of the purchasers that have one,
\* sorted by timestamp
EarliestDateOutcomes(allPurchasers) ==
  LET allDates == SelectSeq([k \in 1..Len(allPurchasers) |-> allPurchasers[k].dueDate],
                            LAMBDA d : d.kind # "null")
      n == Len(allDates)
      gt == [i \in 1..n, j \in 1..n |->
               allDates[i].kind = "date" /\ allDates[j].kind = "date" /\ allDates[i].t > allDates[j].t]
      consistent == \A i \in 1..n : allDates[i].kind = "date"
  IN IF n = 0 THEN {NullDate}
     ELSE {allDates[order[1]] : order \in SortOutcomes(n, gt, consistent)}

\* the merged BidItem of a cluster of several bids, given the value of allDates[0]
MergedBid(clusterId, clusterBids, earliestDate, now) ==
  LET cluster == clusterBids[1].cluster
      allEmails == FlatMap([k \in 1..Len(clusterBids) |-> clusterBids[k].emails])
      allEmailIds == Dedup(FlatMap([k \in 1..Len(clusterBids) |-> clusterBids[k].emailIds]))
      allExtractions == FlatMap([k \in 1..Len(clusterBids) |-> clusterBids[k].extractions])
      allPurchasers ==
        DedupPurchasers(FlatMap([k \in 1..Len(clusterBids) |-> clusterBids[k].purchasers]))
      \* find((p) => p.dueDate?.getTime() === earliestDate.getTime()): NaN equals nothing
      atEarliest == SelectSeq(allPurchasers,
                              LAMBDA q : earliestDate.kind = "date" /\ q.dueDate = earliestDate)
      earliestTime == IF earliestDate.kind = "null" \/ atEarliest = <<>> THEN Null
                      ELSE atEarliest[1].dueTime
      withSellerName == SelectSeq(clusterBids, LAMBDA b : Truthy(b.sellerName))
      withSellerEmail == SelectSeq(clusterBids, LAMBDA b : Truthy(b.sellerEmail))
  IN [id |-> clusterId,
      projectName |-> cluster[1].project["name"],
      projectAddress |-> cluster[1].project["address"],
      purchasers |-> allPurchasers,
      sellerName |-> IF withSellerName = <<>> THEN Null ELSE withSellerName[1].sellerName,
      sellerEmail |-> IF withSellerEmail = <<>> THEN Null ELSE withSellerEmail[1].sellerEmail,
      earliestDueDate |-> earliestDate,
      earliestDueTime |-> earliestTime,
      emailIds |-> allEmailIds,
      emails |-> allEmails,
      extractions |-> allExtractions,
      cluster |-> cluster,
      dateGroup |-> getDateGroup(earliestDate, now),
      status |-> "pending"]

\* variant: the merged bid inherits the date group of its first constituent
ClusterEntryOutcomes_InheritGroup(clusterId, clusterBids, now) ==
  IF Len(clusterBids) = 1 THEN {clusterBids[1]}
  ELSE {[MergedBid(clusterId, clusterBids, d, now) EXCEPT !.dateGroup = clusterBids[1].dateGroup] :
          d \in EarliestDateOutcomes(
                  DedupPurchasers(FlatMap([k \in 1..Len(clusterBids) |-> clusterBids[k].purchasers])))}

\* variant: the emails of the merged bid are de-duplicated like its emailIds
ClusterEntryOutcomes_UniqueEmails(clusterId, clusterBids, now) ==
  IF Len(clusterBids) = 1 THEN {clusterBids[1]}
  ELSE {[MergedBid(clusterId, clusterBids, d, now) EXCEPT !.emails = Dedup(@)] :
          d \in EarliestDateOutcomes(
                  DedupPurchasers(FlatMap([k \in 1..Len(clusterBids) |-> clusterBids[k].purchasers])))}

\* variant: the first bid of the cluster stands for the cluster
ClusterEntryOutcomes_FirstBid(clusterId, clusterBids, now) == {clusterBids[1]}

\* the BidItems one entry of clusterMap can contribute
ClusterEntryOutcomes(clusterId, clusterBids, now) ==
  IF Len(clusterBids) = 1 THEN {clusterBids[1]}
  ELSE LET allPurchasers ==
             DedupPurchasers(FlatMap([k \in 1..Len(clusterBids) |-> clusterBids[k].purchasers]))
       IN {MergedBid(clusterId, clusterBids, d, now) : d \in EarliestDateOutcomes(allPurchasers)}

\* variant: only the cluster-derived bids are returned
mergeBidsByCluster_ClusteredOnly(bids, now) ==
  LET clustered == SelectSeq(bids, HasClusterId)
      clusterIds == Dedup([k \in 1..Len(clustered) |-> clustered[k].cluster[1].id])
      entries == [g \in 1..Len(clusterIds) |->
                    ClusterEntryOutcomes(clusterIds[g],
                      SelectSeq(clustered, LAMBDA b : b.cluster[1].id = clusterIds[g]), now)]
  IN SeqProduct(Eager(entries))

\* variant: the unclustered bids are returned before the cluster-derived ones
mergeBidsByCluster_UnclusteredFirst(bids, now) ==
  LET clustered == SelectSeq(bids, HasClusterId)
      unclusteredBids == SelectSeq(bids, LAMBDA b : ~HasClusterId(b))
      clusterIds == Dedup([k \in 1..Len(clustered) |-> clustered[k].cluster[1].id])
      entries == [g \in 1..Len(clusterIds) |->
                    ClusterEntryOutcomes(clusterIds[g],
                      SelectSeq(clustered, LAMBDA b : b.cluster[1].id = clusterIds[g]), now)]
  IN {unclusteredBids \o mergedBids : mergedBids \in SeqProduct(Eager(entries))}

\* the lists mergeBidsByCluster can return (one list unless a due date is invalid)
mergeBidsByCluster(bids, now) ==
  LET clustered == SelectSeq(bids, HasClusterId)
      unclusteredBids == SelectSeq(bids, LAMBDA b : ~HasClusterId(b))
      clusterIds == Dedup([k \in 1..Len(clustered) |-> clustered[k].cluster[1].id])
      entries == [g \in 1..Len(clusterIds) |->
                    ClusterEntryOutcomes(clusterIds[g],
                      SelectSeq(clustered, LAMBDA b : b.cluster[1].id = clusterIds[g]), now)]
  IN {mergedBids \o unclusteredBids : mergedBids \in SeqProduct(Eager(entries))}

(***************************************************************************)
(* Grouped list                                                            *)
(***************************************************************************)
\* comparator(a, b) > 0 of the sort inside a group
DueDateAfter(a, b) ==
  IF a.earliestDueDate.kind = "null" /\ b.earliestDueDate.kind = "null" THEN FALSE
  ELSE IF a.earliestDueDate.kind = "null" THEN TRUE
  ELSE IF b.earliestDueDate.kind = "null" THEN FALSE
  ELSE /\ a.earliestDueDate.kind = "date"
       /\ b.earliestDueDate.kind = "date"
       /\ a.earliestDueDate.t > b.earliestDueDate.t

\* variant: the bids without a due date fall out of the sorted list
GroupSortOutcomes_DropUndated(groupBids) ==
  {SelectSeq(groupBids, LAMBDA b : b.earliestDueDate.kind # "null")}

\* the orders in which the bids of one group can come out of the sort
GroupSortOutcomes(groupBids) ==
  LET n == Len(groupBids)
      gt == [i \in 1..n, j \in 1..n |-> DueDateAfter(groupBids[i], groupBids[j])]
      consistent == \A i \in 1..n : groupBids[i].earliestDueDate.kind # "invalid"
  IN {Eager([k \in 1..n |-> groupBids[order[k]]]) : order \in SortOutcomes(n, gt, consistent)}

\* the BidGroup lists groupBidsByDate can return (one list unless a due date is invalid)
groupBidsByDate(bids) ==
  LET tags == Dedup([k \in 1..Len(bids) |-> bids[k].dateGroup])
      sorted == [g \in 1..Len(tags) |->
                   GroupSortOutcomes(SelectSeq(bids, LAMBDA b : b.dateGroup = tags[g]))]
      \* groups.sort((a, b) => DateGroupPriority[a.group] - DateGroupPriority[b.group])
      gt == [i \in 1..Len(tags), j \in 1..Len(tags) |->
               DateGroupPriority[tags[i]] - DateGroupPriority[tags[j]] > 0]
      order == SortIdx(Len(tags), gt)
  IN {Eager([k \in 1..Len(order) |->
         [group |-> tags[order[k]], bids |-> lists[order[k]], count |-> Len(lists[order[k]])]]) :
        lists \in SeqProduct(Eager(sorted))}

\* Map.get: the last entry set for the key, as a sequence of at most one value
LastWithId(items, id) ==
  LET hits == SelectSeq(items, LAMBDA e : e.id = id)
  IN IF hits = <<>> THEN <<>> ELSE <<hits[Len(hits)]>>

\* clusterByEmailId.get(emailId): the last cluster that lists the email
ClusterOfEmail(clusters, emailId) ==
  LET hits == SelectSeq(clusters, LAMBDA c : emailId \in Range(c.emailIds))
  IN IF hits = <<>> THEN <<>> ELSE <<hits[Len(hits)]>>

\* variant: an extraction without a purchaser builds no bid
BuiltBids_PurchaserOnly(extractionList, emailList, clusterArg, now) ==
  LET clusters == IF clusterArg = <<>> THEN <<>> ELSE clusterArg[1]
      withEmail == SelectSeq(extractionList,
                     LAMBDA x : LastWithId(emailList, x.emailId) # <<>> /\ x.purchaser # <<>>)
  IN Eager([k \in 1..Len(withEmail) |->
       createBidFromExtraction(withEmail[k], LastWithId(emailList, withEmail[k].emailId)[1],
                               ClusterOfEmail(clusters, withEmail[k].emailId), now)])

\* the bids built from the extractions, before the merge
BuiltBids(extractionList, emailList, clusterArg, now) ==
  LET clusters == IF clusterArg = <<>> THEN <<>> ELSE clusterArg[1]
      withEmail == SelectSeq(extractionList, LAMBDA x : LastWithId(emailList, x.emailId) # <<>>)
  IN Eager([k \in 1..Len(withEmail) |->
       createBidFromExtraction(withEmail[k], LastWithId(emailList, withEmail[k].emailId)[1],
                               ClusterOfEmail(clusters, withEmail[k].emailId), now)])

\* groups.find((g) => g.group === tag)?.count ?? 0
\* the count of the first group, whatever its tag
GroupCount_FirstGroup(groups, tag) ==
  IF groups = <<>> THEN 0 ELSE groups[1].count

GroupCount(groups, tag) ==
  LET hits == SelectSeq(groups, LAMBDA g : g.group = tag)
  IN IF hits = <<>> THEN 0 ELSE hits[1].count

\* the results createGroupedBidList can return; clusterArg is the optional
\* clusters argument (empty sequence: omitted).  built and bids are the local
\* bid list before and after the merge, kept for the properties.
createGroupedBidList(extractionList, emailList, clusterArg, now) ==
  LET built == BuiltBids(extractionList, emailList, clusterArg, now)
  IN UNION {
       {[built |-> built,
         bids |-> bids,
         groups |-> groups,
         summary |->
           [totalBids |-> Len(bids),
            totalEmails |-> Len(emailList),
            overdueCount |-> GroupCount(groups, "overdue"),
            todayCount |-> GroupCount(groups, "today"),
            upcomingCount |-> Len(SelectSeq(bids,
                                LAMBDA b : b.dateGroup # "overdue" /\ b.dateGroup # "no_date"))]] :
        groups \in groupBidsByDate(bids)} :
     bids \in mergeBidsByCluster(built, now)}

\* the objects the statements of mergeBidsByCluster and groupBidsByDate write
\* to (Map.set, push, sort in place): each is created inside the call
WrittenObjects ==
  {"clusterMap", "clusterMap entry", "unclusteredBids", "mergedBids",
   "purchaserMap", "allDates", "groupMap", "groupMap entry", "groups"}

\* variant: the sorted groups are written back to the argument
ArgumentAfter_SortedInPlace(bids, groups) ==
  FlatMap([g \in 1..Len(groups) |-> groups[g].bids])

\* the bids array the caller passed, as groupBidsByDate(mergeBidsByCluster(bids))
\* leaves it: the sorts reorder the arrays they are called on
ArgumentAfter(bids, groups) ==
  IF "bids" \in WrittenObjects THEN FlatMap([g \in 1..Len(groups) |-> groups[g].bids])
  ELSE bids

\* the results of groupBidsByDate(mergeBidsByCluster(bids)) with the array left
RegroupResults(bids, now) ==
  UNION {{[groups |-> groups, held |-> ArgumentAfter(bids, groups)] :
            groups \in groupBidsByDate(merged)} :
         merged \in mergeBidsByCluster(bids, now)}

(***************************************************************************)
(* State                                                                   *)
(***************************************************************************)
VARIABLES
  pc,           \* position of the caller: "ready" before the call, then the call made
  emails,       \* clustering: the batch of EmailForClustering records
  config,       \* clustering: the ClusteringConfig
  clustering,   \* clustering: the ClusteringResult, once computed
  similarity,   \* similarity: the EmailSimilarity of emails[1] and emails[2], once computed
  project,      \* cluster info: the project record extractClusterInfo returned for emails
  now,          \* the clock read by getDateGroup (new Date()), in ticks
  dueDate,      \* classifier: the Date passed to getDateGroup
  dateGroup,    \* classifier: the DateGroup returned
  extractions,  \* bid list: the ExtractedData records passed to createGroupedBidList
  parsedEmails, \* bid list: the ParsedEmail records passed
  clustersArg,  \* bid list: the optional clusters argument (empty sequence: omitted)
  bidList,      \* bid list: the GroupedBidList returned
  rerun,        \* regrouping: the bids list held by the caller and the two results
  page,         \* page: the state of the Home component and of its runs in flight
  uf            \* union-find: the UnionFind object, its last call and its state before it

vars == <<pc, emails, config, clustering, similarity, project, now, dueDate, dateGroup,
          extractions, parsedEmails, clustersArg, bidList, rerun, page, uf>>

clusterVars == <<emails, config, clustering, similarity, project, uf>>
dateVars == <<dueDate, dateGroup>>
bidVars == <<extractions, parsedEmails, clustersArg, bidList, rerun>>

NoSimilarity == [emailId1 |-> "", emailId2 |-> "", signals |-> <<>>,
                 totalWeight |-> 0, weightedSum |-> 0]
NoResult == [clusters |-> <<>>, unclustered |-> <<>>, method |-> "none"]
NoBidList == [built |-> <<>>, bids |-> <<>>, groups |-> <<>>,
              summary |-> [totalBids |-> 0, totalEmails |-> 0, overdueCount |-> 0,
                           todayCount |-> 0, upcomingCount |-> 0]]

NoProject == [name |-> Null, address |-> Null, generalContractor |-> Null,
              engineer |-> Null, architect |-> Null]
\* a new UnionFind(), no call made yet
NoUnionFind == [forest |-> UFEmpty, before |-> UFEmpty, op |-> "none", x |-> "", y |-> "",
                root |-> ""]
NoRerun == [input |-> <<>>, held |-> <<>>, first |-> <<>>, second |-> <<>>]

NoPage == [n |-> 0]

\* the variables a specification does not use keep these values
DateIdle == dueDate = NullDate /\ dateGroup = "none"
PageIdle == page = NoPage
BidIdle ==
  /\ extractions = <<>> /\ parsedEmails = <<>> /\ clustersArg = <<>>
  /\ bidList = NoBidList /\ rerun = NoRerun

(***************************************************************************)
(* Inputs of the clustering pass                                           *)
(***************************************************************************)
MaxEmails == 3

EmailIdPool == <<"e1", "e2", "e3", "e4", "e5">>
ThreadIdPool == {"t1", "t2"}

\* subject, projectName, projectAddress, generalContractor, engineer, architect
SignalProfiles == {
  \* "RE: bid" / "byron" / "1 elm"
  [subject |-> <<"R", "E", ":", " ", "b", "i", "d">>, projectName |-> <<"b", "y", "r", "o", "n">>,
   projectAddress |-> <<"1", " ", "e", "l", "m">>, generalContractor |-> Null,
   engineer |-> Null, architect |-> Null],
  \* "bid" / "Byron!"
  [subject |-> <<"b", "i", "d">>, projectName |-> <<"B", "y", "r", "o", "n", "!">>,
   projectAddress |-> Null, generalContractor |-> Null, engineer |-> Null, architect |-> Null],
  \* empty subject, nothing extracted
  [subject |-> <<>>, projectName |-> Null, projectAddress |-> Null,
   generalContractor |-> Null, engineer |-> Null, architect |-> Null],
  \* "Fw: bid" / "byrne" / "1 elm" / "acme"
  [subject |-> <<"F", "w", ":", " ", "b", "i", "d">>, projectName |-> <<"b", "y", "r", "n", "e">>,
   projectAddress |-> <<"1", " ", "e", "l", "m">>, generalContractor |-> <<"a", "c", "m", "e">>,
   engineer |-> Null, architect |-> Null],
  \* "!!" (non-empty, empty once normalized) / - / - / - / "kbd" / "kbd"
  [subject |-> <<"!", "!">>, projectName |-> Null, projectAddress |-> Null,
   generalContractor |-> Null, engineer |-> <<"k", "b", "d">>, architect |-> <<"k", "b", "d">>]}

DefaultSignalWeights ==
  [subject |-> 20, projectName |-> 25, address |-> 35, gc |-> 10, engineer |-> 5, architect |-> 5]

DEFAULT_CLUSTERING_CONFIG ==
  [similarityThreshold |-> 60, useAI |-> TRUE, signalWeights |-> DefaultSignalWeights]

ConfigPool == {
  DEFAULT_CLUSTERING_CONFIG,
  [DEFAULT_CLUSTERING_CONFIG EXCEPT !.similarityThreshold = 50],
  [DEFAULT_CLUSTERING_CONFIG EXCEPT !.similarityThreshold = 100,
                                    !.signalWeights = [DefaultSignalWeights EXCEPT !.subject = 0]]}

ClusterIdle ==
  /\ emails = <<>>
  /\ config = DEFAULT_CLUSTERING_CONFIG
  /\ clustering = NoResult
  /\ similarity = NoSimilarity
  /\ project = NoProject
  /\ uf = NoUnionFind

EmailRecord(id, thread, profile) ==
  [emailId |-> id, threadId |-> thread, subject |-> profile.subject,
   projectName |-> profile.projectName, projectAddress |-> profile.projectAddress,
   generalContractor |-> profile.generalContractor, engineer |-> profile.engineer,
   architect |-> profile.architect]

EmailBatches ==
  UNION {{[k \in 1..n |-> EmailRecord(EmailIdPool[k], th[k], pr[k])] :
            th \in [1..n -> ThreadIdPool], pr \in [1..n -> SignalProfiles]} : n \in 0..MaxEmails}

InitCluster ==
  /\ pc = "ready"
  /\ PageIdle
  /\ emails \in EmailBatches
  /\ config \in ConfigPool
  /\ clustering = NoResult
  /\ similarity = NoSimilarity
  /\ project = NoProject
  /\ uf = NoUnionFind
  /\ now = 0
  /\ DateIdle
  /\ BidIdle

\* POST /api/cluster with method rule_based: one clustering pass over the batch
ClusterBatch ==
  /\ pc = "ready"
  /\ clustering' = clusterEmailsRuleBased(emails, config)
  /\ pc' = "clustered"
  /\ UNCHANGED <<emails, config, similarity, project, uf, now, dateVars, bidVars, page>>

NextCluster == ClusterBatch

SpecCluster == InitCluster /\ [][NextCluster]_vars

(***************************************************************************)
(* Properties of the clustering pass                                       *)
(***************************************************************************)
InputIds == {emails[k].emailId : k \in 1..Len(emails)}

\* indices of the returned clusters that list the email id
ClustersOf(id) ==
  {g \in 1..Len(clustering.clusters) : id \in Range(clustering.clusters[g].emailIds)}

SameCluster(i, j) ==
  \E g \in 1..Len(clustering.clusters) :
    {emails[i].emailId, emails[j].emailId} \subseteq Range(clustering.clusters[g].emailIds)

\* C1: for every non-empty batch, every input email id is listed by exactly one
\* returned cluster (and once in it), clusters list input ids only, no cluster
\* is empty, and the unclustered list is empty.
C1_Partition ==
  (pc = "clustered" /\ Len(emails) > 0) =>
    /\ \A id \in InputIds :
         /\ Cardinality(ClustersOf(id)) = 1
         /\ \A g \in ClustersOf(id) : Count(clustering.clusters[g].emailIds, id) = 1
    /\ \A g \in 1..Len(clustering.clusters) :
         /\ Range(clustering.clusters[g].emailIds) \subseteq InputIds
         /\ clustering.clusters[g].emailIds # <<>>
    /\ clustering.unclustered = <<>>

\* a batch of three emails split into a cluster of two and a cluster of one
C1_Witness ==
  /\ pc = "clustered"
  /\ Len(emails) = 3
  /\ Len(clustering.clusters) = 2
  /\ Len(clustering.clusters[1].emailIds) = 2

\* the edge relation of the clustering graph between two positions of the batch
Linked(i, j) ==
  \/ emails[i].threadId = emails[j].threadId
  \/ ScoreAtLeast(calculateEmailSimilarity(emails[i], emails[j], config),
                  config.similarityThreshold)
  \/ ScoreAtLeast(calculateEmailSimilarity(emails[j], emails[i], config),
                  config.similarityThreshold)

\* Linked as a matrix over the positions of the batch
LinkMatrix ==
  LET upper == Eager([i \in 1..Len(emails) |->
                        Eager([d \in 1..(Len(emails) - i) |-> Linked(i, i + d)])])
  IN [i \in 1..Len(emails), j \in 1..Len(emails) |->
        IF i = j THEN TRUE ELSE IF i < j THEN upper[i][j - i] ELSE upper[j][i - j]]

RECURSIVE Component(_, _, _)
\* the positions reachable from the set S by chains of linked emails
Component(S, link, fuel) ==
  LET more == S \cup {j \in 1..Len(emails) : \E i \in S : link[i, j]}
  IN IF more = S \/ fuel = 0 THEN S ELSE Component(more, link, fuel - 1)

\* C2: two input emails are in the same cluster if and only if a chain of
\* emails links them in which each consecutive pair shares a threadId or scores
\* at or above the similarity threshold (for every order of the batch).
C2_ConnectedComponents ==
  pc = "clustered" =>
    LET link == LinkMatrix
    IN \A i \in 1..Len(emails) :
         LET comp == Component({i}, link, Len(emails))
         IN \A j \in 1..Len(emails) : SameCluster(i, j) <=> (j \in comp)

\* three emails in one cluster although the first and the last are not linked
\* directly: the chain goes through the second
C2_Witness ==
  /\ pc = "clustered"
  /\ Len(emails) = 3
  /\ SameCluster(1, 3)
  /\ ~Linked(1, 3)
  /\ Linked(1, 2)
  /\ Linked(2, 3)
  /\ emails[1].threadId # emails[2].threadId

\* C3: two emails with the same threadId are the same project for
\* areSameProject, whatever their fields, the weights and the threshold, and
\* the clusterer puts them in the same cluster.
C3_ThreadDominance ==
  \A i, j \in 1..Len(emails) :
    emails[i].threadId = emails[j].threadId =>
      /\ areSameProject(emails[i], emails[j], config)
      /\ pc = "clustered" => SameCluster(i, j)

\* two emails of one thread whose score is below the threshold, clustered together
C3_Witness ==
  /\ pc = "clustered"
  /\ \E i, j \in 1..Len(emails) :
       /\ i # j
       /\ emails[i].threadId = emails[j].threadId
       /\ ~ScoreAtLeast(calculateEmailSimilarity(emails[i], emails[j], config),
                        config.similarityThreshold)
       /\ SameCluster(i, j)

(***************************************************************************)
(* The similarity of one pair of emails                                    *)
(***************************************************************************)
\* the profiles of the clustering pass and three more: only an address, only
\* another address, a subject that is a bare reply prefix with a blank name
ComparisonProfiles ==
  SignalProfiles \cup {
    [subject |-> <<>>, projectName |-> Null, projectAddress |-> <<"1", " ", "e", "l", "m">>,
     generalContractor |-> Null, engineer |-> Null, architect |-> Null],
    [subject |-> <<>>, projectName |-> Null, projectAddress |-> <<"2", " ", "e", "l", "m">>,
     generalContractor |-> Null, engineer |-> Null, architect |-> Null],
    [subject |-> <<"R", "e", ":">>, projectName |-> <<" ">>, projectAddress |-> Null,
     generalContractor |-> Null, engineer |-> Null, architect |-> Null]}

EmailPairs ==
  {<<EmailRecord(EmailIdPool[1], t1, p1), EmailRecord(EmailIdPool[2], t2, p2)>> :
     t1 \in ThreadIdPool, t2 \in ThreadIdPool, p1 \in ComparisonProfiles, p2 \in ComparisonProfiles}

InitSimilarity ==
  /\ pc = "ready"
  /\ PageIdle
  /\ emails \in EmailPairs
  /\ config \in ConfigPool
  /\ clustering = NoResult
  /\ similarity = NoSimilarity
  /\ project = NoProject
  /\ uf = NoUnionFind
  /\ now = 0
  /\ DateIdle
  /\ BidIdle

\* one call of calculateEmailSimilarity(email1, email2, config)
CompareEmails ==
  /\ pc = "ready"
  /\ similarity' = calculateEmailSimilarity(emails[1], emails[2], config)
  /\ pc' = "compared"
  /\ UNCHANGED <<emails, config, clustering, project, uf, now, dateVars, bidVars, page>>

NextSimilarity == CompareEmails

SpecSimilarity == InitSimilarity /\ [][NextSimilarity]_vars

(***************************************************************************)
(* Inputs of extractClusterInfo                                            *)
(***************************************************************************)
MaxMembers == 4

InfoValues == <<Null, <<"e", "l", "m">>, <<"o", "a", "k">>>>

\* a member email whose name and engineer follow the a-th value and whose
\* address, contractor and architect follow the b-th
InfoProfile(a, b) ==
  [subject |-> <<>>,
   projectName |-> InfoValues[a],
   projectAddress |-> InfoValues[b],
   generalContractor |-> InfoValues[(b % 3) + 1],
   engineer |-> InfoValues[((a + 1) % 3) + 1],
   architect |-> IF a = 1 THEN InfoValues[b] ELSE Null]

\* the profiles a member can have: with and without a name, an address, an
\* architect
InfoPairs == {<<1, 1>>, <<1, 2>>, <<2, 2>>, <<2, 3>>, <<3, 2>>, <<3, 3>>}

MemberLists ==
  UNION {{[k \in 1..n |-> EmailRecord(EmailIdPool[k], "t1", InfoProfile(p[k][1], p[k][2]))] :
            p \in [1..n -> InfoPairs]} : n \in 1..MaxMembers}

InitClusterInfo ==
  /\ pc = "ready"
  /\ PageIdle
  /\ emails \in MemberLists
  /\ config = DEFAULT_CLUSTERING_CONFIG
  /\ clustering = NoResult
  /\ similarity = NoSimilarity
  /\ project = NoProject
  /\ uf = NoUnionFind
  /\ now = 0
  /\ DateIdle
  /\ BidIdle

\* extractClusterInfo(clusterEmails) for the members of one cluster
ExtractClusterInfo ==
  /\ pc = "ready"
  /\ project' = extractClusterInfo(emails)
  /\ pc' = "extracted"
  /\ UNCHANGED <<emails, config, clustering, similarity, uf, now, dateVars, bidVars, page>>

NextClusterInfo == ExtractClusterInfo

SpecClusterInfo == InitClusterInfo /\ [][NextClusterInfo]_vars

(***************************************************************************)
(* The UnionFind object on its own: any sequence of find and union calls   *)
(***************************************************************************)
\* the keys the calls are made with
UnionFindKeys == {EmailIdPool[k] : k \in 1..4}

InitUnionFind ==
  /\ pc = "union-find"
  /\ PageIdle
  /\ emails = <<>>
  /\ config = DEFAULT_CLUSTERING_CONFIG
  /\ clustering = NoResult
  /\ similarity = NoSimilarity
  /\ project = NoProject
  /\ uf = NoUnionFind
  /\ now = 0
  /\ DateIdle
  /\ BidIdle

\* uf.find(x)
Find ==
  /\ pc = "union-find"
  /\ \E x \in UnionFindKeys :
       uf' = [forest |-> UFFind(uf.forest, x).uf, before |-> uf.forest,
              op |-> "find", x |-> x, y |-> x, root |-> UFFind(uf.forest, x).root]
  /\ UNCHANGED <<pc, emails, config, clustering, similarity, project, now, dateVars, bidVars, page>>

\* uf.union(x, y)
Union ==
  /\ pc = "union-find"
  /\ \E x, y \in UnionFindKeys :
       uf' = [forest |-> UFUnion(uf.forest, x, y), before |-> uf.forest,
              op |-> "union", x |-> x, y |-> y, root |-> ""]
  /\ UNCHANGED <<pc, emails, config, clustering, similarity, project, now, dateVars, bidVars, page>>

NextUnionFind ==
  \/ Find
  \/ Union

SpecUnionFind == InitUnionFind /\ [][NextUnionFind]_vars

(***************************************************************************)
(* The date-group classifier on its own                                    *)
(***************************************************************************)
\* every tick of the week of days 7 (Monday) .. 13 (Sunday)
NowValues == {d * TicksPerDay + k : d \in 7..13, k \in 0..(TicksPerDay - 1)}

\* no date, an Invalid Date, and every tick from two days before that week to
\* the Tuesday after the following week
DueDateValues ==
  {NullDate, InvalidDate} \cup
  {DateAt(d * TicksPerDay + k) : d \in 5..22, k \in 0..(TicksPerDay - 1)}

InitDate ==
  /\ pc = "ready"
  /\ PageIdle
  /\ now \in NowValues
  /\ dueDate \in DueDateValues
  /\ dateGroup = "none"
  /\ ClusterIdle
  /\ BidIdle

Classify ==
  /\ pc = "ready"
  /\ dateGroup' = getDateGroup(dueDate, now)
  /\ pc' = "classified"
  /\ UNCHANGED <<now, dueDate, clusterVars, bidVars, page>>

NextDate == Classify

SpecDate == InitDate /\ [][NextDate]_vars

(***************************************************************************)
(* Inputs of createGroupedBidList                                          *)
(***************************************************************************)
MaxExtractions == 3

DateString(d) == [calendarDay |-> TRUE, day |-> d]
\* matches /^\d{4}-\d{2}-\d{2}$/ but names no calendar day
BadDateString == [calendarDay |-> FALSE, day |-> 0]

Bay == <<"B", "a", "y">>
BayVariant == <<"b", "a", "y", " ">>
ABC == <<"A", "B", "C">>
Time2pm == <<"2", "p", "m">>
Time9am == <<"9", "a", "m">>

PurchaserIdentity(company, contact) ==
  <<[companyName |-> company, contactName |-> contact, source |-> Null]>>

Byron == <<"b", "y", "r", "o", "n">>
Elm == <<"1", " ", "e", "l", "m">>

\* the clock of the bid-list runs: Wednesday (day 9) at midday
BidNow == 9 * TicksPerDay + 1

\* what the extraction of one email can hold, besides its emailId
ExtractionPayloads == {
  \* Bay (with contact), due today 2pm, project signals, seller
  [purchaser |-> PurchaserIdentity(Bay, <<"j">>),
   bidDueDates |-> <<[date |-> DateString(9), time |-> Time2pm]>>,
   projectSignals |-> <<[projectName |-> Byron, projectAddress |-> Null]>>,
   inferredSeller |-> <<[name |-> <<"s">>, email |-> <<"s", "@">>]>>],
  \* "bay " (no contact), due yesterday, no time
  [purchaser |-> PurchaserIdentity(BayVariant, Null),
   bidDueDates |-> <<[date |-> DateString(8), time |-> Null]>>,
   projectSignals |-> <<>>, inferredSeller |-> <<>>],
  \* ABC, due today 9am
  [purchaser |-> PurchaserIdentity(ABC, Null),
   bidDueDates |-> <<[date |-> DateString(9), time |-> Time9am]>>,
   projectSignals |-> <<>>, inferredSeller |-> <<[name |-> Null, email |-> <<"t", "@">>]>>],
  \* no purchaser, due tomorrow
  [purchaser |-> <<>>,
   bidDueDates |-> <<[date |-> DateString(10), time |-> Time9am]>>,
   projectSignals |-> <<[projectName |-> Null, projectAddress |-> Elm]>>, inferredSeller |-> <<>>],
  \* ABC, no due date
  [purchaser |-> PurchaserIdentity(ABC, <<"k">>),
   bidDueDates |-> <<>>, projectSignals |-> <<>>, inferredSeller |-> <<>>],
  \* Bay, two due dates: Friday (empty time) listed before yesterday
  [purchaser |-> PurchaserIdentity(Bay, Null),
   bidDueDates |-> <<[date |-> DateString(11), time |-> <<>>],
                     [date |-> DateString(8), time |-> Time2pm]>>,
   projectSignals |-> <<>>, inferredSeller |-> <<>>],
  \* ABC, due Thursday of next week
  [purchaser |-> PurchaserIdentity(ABC, Null),
   bidDueDates |-> <<[date |-> DateString(17), time |-> Null]>>,
   projectSignals |-> <<>>, inferredSeller |-> <<>>],
  \* Bay, due in more than two weeks
  [purchaser |-> PurchaserIdentity(Bay, Null),
   bidDueDates |-> <<[date |-> DateString(25), time |-> Time9am]>>,
   projectSignals |-> <<>>, inferredSeller |-> <<>>],
  \* ABC, due a day later still, no time
  [purchaser |-> PurchaserIdentity(ABC, Null),
   bidDueDates |-> <<[date |-> DateString(26), time |-> Null]>>,
   projectSignals |-> <<>>, inferredSeller |-> <<>>],
  \* Bay, a due date that names no calendar day, 2pm
  [purchaser |-> PurchaserIdentity(Bay, Null),
   bidDueDates |-> <<[date |-> BadDateString, time |-> Time2pm]>>,
   projectSignals |-> <<>>, inferredSeller |-> <<>>]}

\* extractedAt tells the records of one list apart, as their identity does
ExtractedData(id, extractedAt, payload) ==
  [emailId |-> id, extractedAt |-> extractedAt,
   purchaser |-> payload.purchaser, bidDueDates |-> payload.bidDueDates,
   projectSignals |-> payload.projectSignals, inferredSeller |-> payload.inferredSeller]

\* the emailIds of n extractions: one email each, or the last extraction is a
\* second extraction of the first email
ExtractionEmailIds(n) ==
  {[k \in 1..n |-> EmailIdPool[k]]} \cup
  (IF n >= 2 THEN {[k \in 1..n |-> IF k = n THEN EmailIdPool[1] ELSE EmailIdPool[k]]} ELSE {})

\* up to MaxExtractions extractions, one email each
ExtractionLists ==
  UNION {{[k \in 1..n |-> ExtractedData(EmailIdPool[k], k, pl[k])] :
            pl \in [1..n -> ExtractionPayloads]} :
           n \in 0..MaxExtractions}

\* the payloads due today or tomorrow or without a due date
SourcePayloads ==
  {p \in ExtractionPayloads :
     p.bidDueDates = <<>> \/ p.bidDueDates[1].date \in {DateString(9), DateString(10)}}

\* up to MaxExtractions extractions, with and without a second extraction of
\* the first email
RepeatedExtractionLists ==
  UNION {{[k \in 1..n |-> ExtractedData(ids[k], k, pl[k])] :
            pl \in [1..n -> SourcePayloads], ids \in ExtractionEmailIds(n)} :
           n \in 0..MaxExtractions}

ParsedEmail(id) == [id |-> id]

\* the emails supplied with n extractions: every extracted email and one that
\* has no extraction, or the same without the email of the first extraction
ParsedEmailLists(n) ==
  {[k \in 1..(n + 1) |-> ParsedEmail(EmailIdPool[k])],
   [k \in 1..n |-> ParsedEmail(EmailIdPool[k + 1])]}

ProjectCluster(id, emailIds) ==
  [id |-> id, emailIds |-> emailIds,
   project |-> IF id = "c1" THEN [name |-> Byron, address |-> Null]
               ELSE [name |-> Null, address |-> Elm]]

\* the cluster ("none": no cluster) of the k-th email under each assignment shape
ClusterShapes == {
  [k \in 1..(MaxExtractions + 1) |-> "c1"],
  [k \in 1..(MaxExtractions + 1) |-> IF k <= 2 THEN "c1" ELSE "none"],
  [k \in 1..(MaxExtractions + 1) |-> IF k <= 2 THEN "c1" ELSE "c2"],
  [k \in 1..(MaxExtractions + 1) |-> IF k = 1 THEN "none" ELSE "c1"],
  [k \in 1..(MaxExtractions + 1) |-> IF k % 2 = 1 THEN "c1" ELSE "c2"],
  [k \in 1..(MaxExtractions + 1) |-> IF k = 1 THEN "c2" ELSE "c1"]}

\* the clusters argument of a shape over the first n emails
ClustersOfShape(shape, n) ==
  LET members(c) == SelectSeq([k \in 1..n |-> EmailIdPool[k]],
                              LAMBDA id : \E k \in 1..n : EmailIdPool[k] = id /\ shape[k] = c)
  IN SelectSeq(<<ProjectCluster("c1", members("c1")), ProjectCluster("c2", members("c2"))>>,
               LAMBDA c : c.emailIds # <<>>)

\* omitted, or the clusters of a shape
ClusterArgs(n) == {<<>>} \cup {<<ClustersOfShape(shape, n)>> : shape \in ClusterShapes}

InitBids ==
  /\ pc = "ready"
  /\ PageIdle
  /\ now = BidNow
  /\ extractions \in ExtractionLists
  /\ parsedEmails \in ParsedEmailLists(Len(extractions))
  /\ clustersArg \in ClusterArgs(Len(extractions))
  /\ bidList = NoBidList
  /\ rerun = NoRerun
  /\ ClusterIdle
  /\ DateIdle

\* one call of createGroupedBidList(extractions, emails, clusters)
CreateGroupedBidList ==
  /\ pc = "ready"
  /\ bidList' \in createGroupedBidList(extractions, parsedEmails, clustersArg, now)
  /\ pc' = "listed"
  /\ UNCHANGED <<now, extractions, parsedEmails, clustersArg, rerun, clusterVars, dateVars, page>>

NextBids == CreateGroupedBidList

SpecBids == InitBids /\ [][NextBids]_vars

\* the emails supplied with n extractions, and the list in which the first
\* email is supplied a second time at the end
RepeatedEmailLists(n) ==
  ParsedEmailLists(n) \cup
  {[k \in 1..(n + 2) |-> ParsedEmail(EmailIdPool[IF k = n + 2 THEN 1 ELSE k])]}

\* the same call on lists in which an email can be extracted twice and
\* supplied twice
InitBidSources ==
  /\ pc = "ready"
  /\ PageIdle
  /\ now = BidNow
  /\ extractions \in RepeatedExtractionLists
  /\ parsedEmails \in RepeatedEmailLists(Len(extractions))
  /\ clustersArg \in ClusterArgs(Len(extractions))
  /\ bidList = NoBidList
  /\ rerun = NoRerun
  /\ ClusterIdle
  /\ DateIdle

NextBidSources == CreateGroupedBidList

SpecBidSources == InitBidSources /\ [][NextBidSources]_vars

\* the payloads due in more than two weeks, with an unparseable due date or
\* without a due date
RegroupPayloads ==
  {p \in ExtractionPayloads :
     p.bidDueDates = <<>> \/
     p.bidDueDates[1].date \in {DateString(25), DateString(26), BadDateString}}

RegroupExtractionLists ==
  UNION {{[k \in 1..n |-> ExtractedData(EmailIdPool[k], k, pl[k])] :
            pl \in [1..n -> RegroupPayloads]} :
           n \in 0..MaxExtractions}

\* the bids list of the caller: the BidItems built from the extractions
RegroupInput == BuiltBids(extractions, parsedEmails, clustersArg, now)

InitRegroup ==
  /\ pc = "ready"
  /\ PageIdle
  /\ now = BidNow
  /\ extractions \in RegroupExtractionLists
  /\ parsedEmails = [k \in 1..Len(extractions) |-> ParsedEmail(EmailIdPool[k])]
  /\ clustersArg \in ClusterArgs(Len(extractions))
  /\ bidList = NoBidList
  /\ rerun = NoRerun
  /\ ClusterIdle
  /\ DateIdle

\* groupBidsByDate(mergeBidsByCluster(bids)), first evaluation
GroupMerged ==
  /\ pc = "ready"
  /\ \E r \in RegroupResults(RegroupInput, now) :
       rerun' = [input |-> RegroupInput, held |-> r.held, first |-> r.groups, second |-> <<>>]
  /\ pc' = "grouped"
  /\ UNCHANGED <<now, extractions, parsedEmails, clustersArg, bidList, clusterVars, dateVars, page>>

\* second evaluation on the array the caller holds, at the same now; the sort
\* of one engine run on the same elements with the same comparator results
\* takes the same steps
GroupMergedAgain ==
  /\ pc = "grouped"
  /\ \E r \in RegroupResults(rerun.held, now) :
       /\ rerun.held = rerun.input => r.groups = rerun.first
       /\ rerun' = [rerun EXCEPT !.held = r.held, !.second = r.groups]
  /\ pc' = "regrouped"
  /\ UNCHANGED <<now, extractions, parsedEmails, clustersArg, bidList, clusterVars, dateVars, page>>

NextRegroup == GroupMerged \/ GroupMergedAgain

SpecRegroup == InitRegroup /\ [][NextRegroup]_vars

(***************************************************************************)
(* The Home component: Process All, the per-email Process buttons, Cancel  *)
(* and the reset timers.  Each action is one run-to-completion step of the *)
(* event loop: a click handler or the continuation of an await.            *)
(***************************************************************************)
MAX_CONCURRENT == 15
MaxRuns == 2

Min(a, b) == IF a < b THEN a ELSE b

\* emails.length: one email, or one more than a chunk holds
EmailCounts == {1, MAX_CONCURRENT + 1}

\* the stages in which isProcessing is true and the banner with Cancel shows
ProcessingStages == {"extracting", "clustering"}

\* emailBatch.slice(i, i + MAX_CONCURRENT).length
ChunkSize(n, i) == Min(MAX_CONCURRENT, n - i)

\* variant: the loop does not look at processingCancelled
BatchLoopContinues_NoCancelCheck(n, i, cancelled) == i < n

\* for (...; i < emailBatch.length; ...) { if (processingCancelled.current) break; ...
BatchLoopContinues(n, i, cancelled) == i < n /\ ~cancelled

\* a handleProcessEmails run at its first await: the first chunk is in flight.
\* cancelPressed, chunkAfterCancel, interfered, unsettledAtCluster,
\* wroteExtractions, wroteBidList and endStage record what happened to the run.
NewRun(n, id) ==
  [id |-> id, at |-> "extracting", outcome |-> "running", i |-> 0,
   pending |-> ChunkSize(n, 0), failed |-> 0, completed |-> 0, results |-> 0,
   cancelPressed |-> FALSE, chunkAfterCancel |-> FALSE, interfered |-> FALSE,
   clusterIssued |-> FALSE, unsettledAtCluster |-> 0,
   wroteExtractions |-> FALSE, wroteBidList |-> FALSE, endStage |-> "none"]

PreviousValue == [by |-> "previous", run |-> 0]

\* no run has ended yet
NoRun == [NewRun(0, 0) EXCEPT !.at = "none", !.outcome = "none"]

InitialPage(n) ==
  [n |-> n, stage |-> "idle", emailsExtracted |-> 0, cancelled |-> FALSE,
   processingEmailId |-> 0, extractions |-> PreviousValue, bidList |-> PreviousValue,
   runs |-> <<>>, runsStarted |-> 0, ended |-> NoRun,
   singles |-> <<>>, singlesStarted |-> 0,
   batchTimers |-> 0, singleTimers |-> 0]

\* every run in flight has seen another run start
Interfere(runs) == [k \in 1..Len(runs) |-> [runs[k] EXCEPT !.interfered = TRUE]]

\* handleProcessEmails up to the first await
StartBatch(p) ==
  [p EXCEPT !.cancelled = FALSE, !.stage = "extracting", !.emailsExtracted = 0,
            !.runsStarted = @ + 1,
            !.runs = Append(Interfere(p.runs), NewRun(p.n, p.runsStarted + 1))]

\* the next chunk goes out
NextChunk(p, k, run) ==
  [p EXCEPT !.emailsExtracted = run.completed,
            !.runs[k] = [run EXCEPT !.pending = ChunkSize(p.n, run.i), !.failed = 0,
                                    !.chunkAfterCancel = run.cancelPressed]]

RemoveAt(seq, j) == SubSeq(seq, 1, j - 1) \o SubSeq(seq, j + 1, Len(seq))

\* a run that has returned: its counters but completed are of no more use
Ended(run, outcome, stage) ==
  [run EXCEPT !.at = "ended", !.outcome = outcome, !.endStage = stage,
              !.i = 0, !.pending = 0, !.failed = 0, !.results = 0]

\* handleProcessEmails after await processEmailBatch(...)
AfterBatch(p, k, run) ==
  IF p.cancelled
  THEN [p EXCEPT !.stage = "idle", !.emailsExtracted = 0,
                 !.runs = RemoveAt(@, k),
                 !.ended = Ended(run, "cancelled", "idle")]
  ELSE [p EXCEPT !.extractions = [by |-> "batch", run |-> run.id],
                 !.stage = "clustering", !.emailsExtracted = run.results,
                 !.runs[k] = [run EXCEPT !.at = "clustering", !.clusterIssued = TRUE,
                                         !.unsettledAtCluster = p.n - run.completed,
                                         !.wroteExtractions = TRUE]]

\* processEmailBatch after await Promise.allSettled(...): the results of the
\* chunk are counted, then the loop goes on or the function returns
AfterChunk(p, k, run) ==
  IF BatchLoopContinues(p.n, run.i, p.cancelled)
  THEN NextChunk(p, k, run)
  ELSE AfterBatch([p EXCEPT !.emailsExtracted = run.completed], k, run)

ChunkCounted(n, run) ==
  [run EXCEPT !.results = run.results + (ChunkSize(n, run.i) - run.failed),
              !.completed = run.completed + ChunkSize(n, run.i),
              !.i = run.i + MAX_CONCURRENT]

\* one /api/extract request of run k settles, fulfilled with data (ok) or not
ExtractSettled(p, k, ok) ==
  IF p.runs[k].pending > 1
  THEN [p EXCEPT !.runs[k] = [@ EXCEPT !.pending = @ - 1,
                                       !.failed = @ + (IF ok THEN 0 ELSE 1)]]
  ELSE AfterChunk(p, k,
                  ChunkCounted(p.n, [p.runs[k] EXCEPT !.pending = 0,
                                                      !.failed = @ + (IF ok THEN 0 ELSE 1)]))

\* handleProcessEmails after the /api/cluster request has settled
ClusterSettled(p, k) ==
  [p EXCEPT !.bidList = [by |-> "batch", run |-> p.runs[k].id],
            !.stage = "complete", !.emailsExtracted = p.runs[k].results,
            !.batchTimers = @ + 1,
            !.runs = RemoveAt(@, k),
            !.ended = Ended([p.runs[k] EXCEPT !.wroteBidList = TRUE], "complete", "complete")]

\* EmailPanel.handleProcessEmail and handleProcessSingleEmail up to the await
StartSingle(p, id) ==
  [p EXCEPT !.processingEmailId = id, !.stage = "extracting", !.emailsExtracted = 0,
            !.singles = Append(@, id), !.singlesStarted = @ + 1,
            !.runs = Interfere(@)]

\* handleProcessSingleEmail after its request has settled: with data, with
\* success false, or with an exception
SingleSettled(p, j, result) ==
  LET q == [p EXCEPT !.singles = RemoveAt(@, j), !.processingEmailId = 0]
  IN IF result = "throws"
     THEN [q EXCEPT !.stage = "error", !.emailsExtracted = 0]
     ELSE IF result = "data"
     THEN [q EXCEPT !.extractions = [by |-> "single", run |-> p.singles[j]],
                    !.bidList = [by |-> "single", run |-> p.singles[j]],
                    !.stage = "complete", !.emailsExtracted = 1, !.singleTimers = @ + 1]
     ELSE [q EXCEPT !.stage = "complete", !.emailsExtracted = 1, !.singleTimers = @ + 1]

\* the Cancel button of the banner
CancelPressed(p) ==
  [p EXCEPT !.cancelled = TRUE,
            !.runs = [k \in 1..Len(p.runs) |->
                        IF p.runs[k].at = "extracting"
                        THEN [p.runs[k] EXCEPT !.cancelPressed = TRUE] ELSE p.runs[k]]]

pageOthers == <<pc, now, clusterVars, dateVars, bidVars>>

InitPage ==
  /\ pc = "page"
  /\ now = 0
  /\ page \in {InitialPage(n) : n \in EmailCounts}
  /\ ClusterIdle
  /\ DateIdle
  /\ BidIdle

\* click on Process All (while at most one earlier run is still in flight)
ProcessAll ==
  /\ page.n > 0
  /\ page.stage \notin ProcessingStages
  /\ page.runsStarted < MaxRuns
  /\ \A j, k \in 1..Len(page.runs) : j = k
  /\ page' = StartBatch(page)
  /\ UNCHANGED pageOthers

\* a request of a chunk settles; at most one request of a chunk fails
ExtractSettles ==
  /\ \E k \in 1..Len(page.runs), ok \in BOOLEAN :
       /\ page.runs[k].at = "extracting"
       /\ ok \/ page.runs[k].failed = 0
       /\ page' = ExtractSettled(page, k, ok)
  /\ UNCHANGED pageOthers

ClusterSettles ==
  /\ \E k \in 1..Len(page.runs) :
       /\ page.runs[k].at = "clustering"
       /\ page' = ClusterSettled(page, k)
  /\ UNCHANGED pageOthers

\* setTimeout(..., 2000) of a completed batch run
BatchTimerFires ==
  /\ page.batchTimers > 0
  /\ page' = [page EXCEPT !.stage = "idle", !.batchTimers = @ - 1]
  /\ UNCHANGED pageOthers

\* click on the Process button of an email (one such click in a behaviour)
ProcessEmail ==
  /\ page.singlesStarted = 0
  /\ \E id \in 1..Min(page.n, 2) :
       /\ page.processingEmailId # id
       /\ page' = StartSingle(page, id)
  /\ UNCHANGED pageOthers

SingleSettles ==
  /\ \E j \in 1..Len(page.singles), result \in {"data", "no data", "throws"} :
       page' = SingleSettled(page, j, result)
  /\ UNCHANGED pageOthers

\* setTimeout(..., 1500) of a single-email run
SingleTimerFires ==
  /\ page.singleTimers > 0
  /\ page' = [page EXCEPT !.stage = "idle", !.emailsExtracted = 0, !.singleTimers = @ - 1]
  /\ UNCHANGED pageOthers

Cancel ==
  /\ page.stage \in ProcessingStages
  /\ page' = CancelPressed(page)
  /\ UNCHANGED pageOthers

NextPage ==
  \/ ProcessAll
  \/ ExtractSettles
  \/ ClusterSettles
  \/ BatchTimerFires
  \/ ProcessEmail
  \/ SingleSettles
  \/ SingleTimerFires
  \/ Cancel

SpecPage == InitPage /\ [][NextPage]_vars

(***************************************************************************)
(* Properties of the date-group classifier                                 *)
(***************************************************************************)
CalendarDay(t) == t \div TicksPerDay

\* C10: getDateGroup returns one of the seven groups for every input; no_date
\* exactly when the date is absent; otherwise overdue exactly when the date is
\* strictly before the start of today, today exactly when it falls on today's
\* calendar day and tomorrow exactly when it falls on the next calendar day.
C10_FirstRules ==
  pc = "classified" =>
    /\ dateGroup \in {"overdue", "today", "tomorrow", "this_week", "next_week", "later", "no_date"}
    /\ (dateGroup = "no_date") <=> (dueDate.kind = "null")
    /\ (dateGroup = "overdue") <=>
         (dueDate.kind = "date" /\ dueDate.t < CalendarDay(now) * TicksPerDay)
    /\ (dateGroup = "today") <=>
         (dueDate.kind = "date" /\ CalendarDay(dueDate.t) = CalendarDay(now))
    /\ (dateGroup = "tomorrow") <=>
         (dueDate.kind = "date" /\ CalendarDay(dueDate.t) = CalendarDay(now) + 1)

\* the last tick of yesterday, classified late in the day, is overdue
C10_Witness ==
  /\ pc = "classified"
  /\ dueDate.kind = "date"
  /\ dueDate.t = CalendarDay(now) * TicksPerDay - 1
  /\ now % TicksPerDay = TicksPerDay - 1
  /\ dateGroup = "overdue"

(***************************************************************************)
(* Properties of the merge and of the grouped list                         *)
(***************************************************************************)
NormalizedCompany(purchaser) == Trim(ToLowerCase(purchaser.companyName))

SuppliedClusterIds ==
  IF clustersArg = <<>> THEN {} ELSE {clustersArg[1][k].id : k \in 1..Len(clustersArg[1])}

\* the bids built for the emails of a cluster, in input order
Constituents(cid) ==
  SelectSeq(bidList.built, LAMBDA b : b.cluster # <<>> /\ b.cluster[1].id = cid)

\* the clusters carried by more than one built bid
MergedClusterIds == {cid \in SuppliedClusterIds : Len(Constituents(cid)) > 1}

\* the output bids that refer to a cluster
OutputFor(cid) ==
  SelectSeq(bidList.bids, LAMBDA b : b.cluster # <<>> /\ b.cluster[1].id = cid)

ConstituentPurchasers(cid) ==
  FlatMap([k \in 1..Len(Constituents(cid)) |-> Constituents(cid)[k].purchasers])

\* ps without every purchaser whose normalized company name occurred earlier
FirstOfEachCompany(ps) ==
  LET keep == [i \in 1..Len(ps) |->
                 ~\E j \in 1..(i - 1) : NormalizedCompany(ps[j]) = NormalizedCompany(ps[i])]
      kept == SelectIdx(keep, 1, Len(ps))
  IN Eager([k \in 1..Len(kept) |-> ps[kept[k]]])

\* C4: the purchasers of a merged bid are the constituents' purchasers in input
\* order without those whose lowercased, trimmed company name occurred
\* earlier, each kept record unchanged; no two purchasers of an output bid share
\* a normalized company name.
C4_PurchaserDedup ==
  pc = "listed" =>
    /\ \A cid \in MergedClusterIds :
         \A k \in 1..Len(OutputFor(cid)) :
           OutputFor(cid)[k].purchasers = FirstOfEachCompany(ConstituentPurchasers(cid))
    /\ \A k \in 1..Len(bidList.bids) :
         \A i, j \in 1..Len(bidList.bids[k].purchasers) :
           i # j => NormalizedCompany(bidList.bids[k].purchasers[i]) #
                    NormalizedCompany(bidList.bids[k].purchasers[j])

\* a merge that drops a purchaser spelled differently and keeps two companies
C4_Witness ==
  /\ pc = "listed"
  /\ \E cid \in MergedClusterIds :
       /\ Len(OutputFor(cid)) = 1
       /\ Len(OutputFor(cid)[1].purchasers) = 2
       /\ Len(ConstituentPurchasers(cid)) = 3
       /\ \E i, j \in 1..3 :
            /\ i < j
            /\ ConstituentPurchasers(cid)[i].companyName # ConstituentPurchasers(cid)[j].companyName
            /\ NormalizedCompany(ConstituentPurchasers(cid)[i]) =
               NormalizedCompany(ConstituentPurchasers(cid)[j])

\* C5: a cluster carried by more than one built bid has exactly one output bid,
\* whose id is the cluster id and no email id; no two output bids refer to the
\* same cluster.
C5_OneBidPerCluster ==
  pc = "listed" =>
    /\ \A cid \in MergedClusterIds :
         /\ Len(OutputFor(cid)) = 1
         /\ OutputFor(cid)[1].id = cid
         /\ \A k \in 1..Len(extractions) : OutputFor(cid)[1].id # extractions[k].emailId
    /\ \A cid \in SuppliedClusterIds : Len(OutputFor(cid)) <= 1

\* a merged cluster next to a second cluster and an unclustered bid
C5_Witness ==
  /\ pc = "listed"
  /\ MergedClusterIds # {}
  /\ Len(bidList.bids) >= 2
  /\ Len(bidList.built) > Len(bidList.bids)

\* the purchasers of a bid that have a due date (a date that names a day)
DatedPurchasers(bid) == SelectSeq(bid.purchasers, LAMBDA q : q.dueDate.kind = "date")

\* C6: earliestDueDate of a merged bid is the minimum due date of its purchasers
\* that have one (null if none has), and earliestDueTime is the dueTime of the
\* first purchaser whose due date is that minimum (null if there is no date).
C6_EarliestDue ==
  pc = "listed" =>
    \A cid \in MergedClusterIds :
      \A k \in 1..Len(OutputFor(cid)) :
        LET bid == OutputFor(cid)[k]
            dated == DatedPurchasers(bid)
        IN IF dated = <<>>
           THEN bid.earliestDueDate = NullDate /\ bid.earliestDueTime = Null
           ELSE /\ bid.earliestDueDate.kind = "date"
                /\ \E i \in 1..Len(dated) : dated[i].dueDate = bid.earliestDueDate
                /\ \A i \in 1..Len(dated) : bid.earliestDueDate.t <= dated[i].dueDate.t
                /\ \E i \in 1..Len(dated) :
                     /\ dated[i].dueDate = bid.earliestDueDate
                     /\ \A j \in 1..(i - 1) : dated[j].dueDate # bid.earliestDueDate
                     /\ bid.earliestDueTime = dated[i].dueTime

\* the extractions whose email is among the supplied emails
WithSuppliedEmail ==
  SelectSeq(extractions, LAMBDA x : \E k \in 1..Len(parsedEmails) : parsedEmails[k].id = x.emailId)

\* the bids were built one per record of xs, in order
BuiltOnePer(xs) ==
  /\ Len(bidList.built) = Len(xs)
  /\ \A k \in 1..Len(bidList.built) :
       /\ bidList.built[k].extractions = <<xs[k]>>
       /\ bidList.built[k].id = xs[k].emailId
       /\ Len(bidList.built[k].purchasers) <= 1

\* without clusters the output is the bids of xs, unclustered and unmerged
UnclusteredOnePer(xs) ==
  clustersArg = <<>> =>
    /\ bidList.bids = bidList.built
    /\ bidList.summary.totalBids = Len(xs)
    /\ \A k \in 1..Len(bidList.bids) :
         bidList.bids[k].cluster = <<>> /\ bidList.bids[k].id = xs[k].emailId

\* C7 as stated: one BidItem per extraction record supplied, with at most one
\* purchaser; when clusters is omitted totalBids is the number of extraction
\* records and each id is its extraction's emailId.
C7_OnePerExtraction ==
  pc = "listed" => BuiltOnePer(extractions) /\ UnclusteredOnePer(extractions)

\* C7, amended: one BidItem per extraction record whose emailId is the id of a
\* supplied email (the others are skipped), with at most one purchaser; when
\* clusters is omitted every BidItem is unclustered and unmerged, totalBids is
\* the number of those records and each id is its extraction's emailId.
C7_OnePerExtractionWithEmail ==
  pc = "listed" => BuiltOnePer(WithSuppliedEmail) /\ UnclusteredOnePer(WithSuppliedEmail)

\* clusters omitted, one extraction skipped for want of its email, two bids built
C7_Witness ==
  /\ pc = "listed"
  /\ clustersArg = <<>>
  /\ Len(WithSuppliedEmail) < Len(extractions)
  /\ bidList.summary.totalBids = 2
  /\ \E k \in 1..2 : bidList.bids[k].purchasers = <<>>

FixedGroupOrder ==
  <<"overdue", "today", "tomorrow", "this_week", "next_week", "later", "no_date">>

PlaceInOrder(tag) == CHOOSE k \in 1..Len(FixedGroupOrder) : FixedGroupOrder[k] = tag

\* C8: groupBidsByDate emits one group per date group that occurs among the
\* bids and none for the others, in the fixed order overdue .. no_date; a group
\* holds exactly the bids of its tag and its count is the number of its bids.
C8_GroupOrder ==
  pc = "listed" =>
    /\ {bidList.groups[g].group : g \in 1..Len(bidList.groups)} =
       {bidList.bids[k].dateGroup : k \in 1..Len(bidList.bids)}
    /\ \A g, h \in 1..Len(bidList.groups) :
         g < h => PlaceInOrder(bidList.groups[g].group) < PlaceInOrder(bidList.groups[h].group)
    /\ \A g \in 1..Len(bidList.groups) :
         /\ Range(bidList.groups[g].bids) =
            {b \in Range(bidList.bids) : b.dateGroup = bidList.groups[g].group}
         /\ Len(bidList.groups[g].bids) =
            Len(SelectSeq(bidList.bids, LAMBDA b : b.dateGroup = bidList.groups[g].group))
         /\ bidList.groups[g].count = Len(bidList.groups[g].bids)

\* bids that arrive against the fixed order, one group of two
C8_Witness ==
  /\ pc = "listed"
  /\ Len(bidList.bids) = 3
  /\ Len(bidList.groups) = 2
  /\ PlaceInOrder(bidList.bids[1].dateGroup) > PlaceInOrder(bidList.bids[3].dateGroup)
  /\ bidList.groups[1].group = "overdue"
  /\ bidList.groups[2].count = 2

\* C9: summary.totalBids is the sum of the group counts, and every bid left by
\* the merge is listed in exactly one place of one group.
C9_CountConservation ==
  pc = "listed" =>
    /\ bidList.summary.totalBids =
       SumSeq([g \in 1..Len(bidList.groups) |-> bidList.groups[g].count])
    /\ \A k \in 1..Len(bidList.bids) :
         Cardinality({<<g, i>> \in (1..Len(bidList.groups)) \X (1..Len(bidList.bids)) :
                        /\ i <= Len(bidList.groups[g].bids)
                        /\ bidList.groups[g].bids[i] = bidList.bids[k]}) = 1

\* a merged bid and an undated unclustered bid, in two groups
C9_Witness ==
  /\ pc = "listed"
  /\ MergedClusterIds # {}
  /\ bidList.summary.totalBids = 2
  /\ Len(bidList.groups) = 2
  /\ bidList.groups[2].group = "no_date"

(***************************************************************************)
(* Properties of the week rules of the classifier                          *)
(***************************************************************************)
\* the calendar day of the Monday that starts the week of now
MondayOfThisWeek == CalendarDay(now) - (CalendarDay(now) % 7)

\* C11: a date that the earlier rules leave (not overdue, today, tomorrow or
\* this_week) and that falls on a calendar day of the Monday-to-Sunday week
\* after the current one, from its local midnight on, is next_week; only
\* dates after the end of next week are later.
C11_NextWeek ==
  (pc = "classified" /\ dueDate.kind = "date") =>
    /\ (/\ dateGroup \notin {"overdue", "today", "tomorrow", "this_week"}
        /\ CalendarDay(dueDate.t) \in (MondayOfThisWeek + 7)..(MondayOfThisWeek + 13))
         => dateGroup = "next_week"
    /\ dateGroup = "later" => CalendarDay(dueDate.t) > MondayOfThisWeek + 13

\* C12: this_week is returned exactly for the dates that are not overdue,
\* today or tomorrow and fall from the day after tomorrow through the end of
\* the current Monday-start week, on every weekday of now.
C12_ThisWeek ==
  (pc = "classified" /\ dueDate.kind = "date") =>
    ((dateGroup = "this_week") <=>
       /\ CalendarDay(dueDate.t) >= CalendarDay(now) + 2
       /\ CalendarDay(dueDate.t) <= MondayOfThisWeek + 6)

(***************************************************************************)
(* Unparseable due dates                                                   *)
(***************************************************************************)
\* the first due-date string of the extraction names no calendar day
FirstDateUnparseable(extraction) ==
  Len(extraction.bidDueDates) > 0 /\ ~extraction.bidDueDates[1].date.calendarDay

\* C13: a due-date string that parseISO cannot parse counts as no date: the
\* BidItem and the Purchaser built from it are in no_date, and no output
\* BidItem carries the invalid value as earliestDueDate.
C13_UnparseableIsNoDate ==
  pc = "listed" =>
    /\ \A k \in 1..Len(bidList.built) :
         FirstDateUnparseable(bidList.built[k].extractions[1]) =>
           /\ bidList.built[k].dateGroup = "no_date"
           /\ \A i \in 1..Len(bidList.built[k].purchasers) :
                bidList.built[k].purchasers[i].dateGroup = "no_date"
    /\ \A k \in 1..Len(bidList.bids) : bidList.bids[k].earliestDueDate.kind # "invalid"

(***************************************************************************)
(* Properties of the weighted score                                        *)
(***************************************************************************)
NonEmptyValue(v) == v # Null /\ v # <<>>

\* at least one of the two emails has a non-empty value for the signal
Comparable(signal) ==
  NonEmptyValue(SignalValue(signal, emails[1])) \/ NonEmptyValue(SignalValue(signal, emails[2]))

\* the sum of term[signal] over the signals of the sequence that are in the set
SumOver(included, term) ==
  SumSeq([k \in 1..Len(SignalNames) |->
            IF SignalNames[k] \in included THEN term[SignalNames[k]] ELSE 0])

FieldScore ==
  [signal \in Range(SignalNames) |->
     calculateStringSimilarity(SignalValue(signal, emails[1]), SignalValue(signal, emails[2]))]

ScoreTimesWeight ==
  [signal \in Range(SignalNames) |-> FieldScore[signal] * config.signalWeights[signal]]

ComparableSignals == {signal \in Range(SignalNames) : Comparable(signal)}

OnlyAddress(email) ==
  /\ NonEmptyValue(email.projectAddress)
  /\ \A signal \in Range(SignalNames) \ {"address"} : ~NonEmptyValue(SignalValue(signal, email))

BothEmptyNormalized(signal) ==
  /\ normalizeString(SignalValue(signal, emails[1])) = <<>>
  /\ normalizeString(SignalValue(signal, emails[2])) = <<>>

\* C15: a signal whose two values are both empty after normalization adds
\* nothing to the weighted sum and nothing to the weight denominator.
C15_EmptyNormalizedExcluded ==
  pc = "compared" =>
    LET included == {signal \in ComparableSignals : ~BothEmptyNormalized(signal)}
    IN /\ similarity.totalWeight = SumOver(included, config.signalWeights)
       /\ similarity.weightedSum =
            IF similarity.totalWeight > 0 THEN SumOver(included, ScoreTimesWeight) ELSE 0

(***************************************************************************)
(* Further properties of the merge and of the grouped list                 *)
(***************************************************************************)
\* every bid listed in a group, group after group
GroupedBids == FlatMap([g \in 1..Len(bidList.groups) |-> bidList.groups[g].bids])

\* C16: every BidItem built from an extraction, returned by the merge or
\* listed in a group has dateGroup = getDateGroup(its earliestDueDate) at the
\* same now; a merged item's group comes from the merged earliestDueDate.
C16_DateGroupOfEarliest ==
  pc = "listed" =>
    \A b \in Range(bidList.built) \cup Range(bidList.bids) \cup Range(GroupedBids) :
      b.dateGroup = getDateGroup(b.earliestDueDate, now)

\* a merged bid whose date group differs from that of its first constituent
C16_Witness ==
  /\ pc = "listed"
  /\ \E cid \in MergedClusterIds :
       /\ Len(OutputFor(cid)) = 1
       /\ OutputFor(cid)[1].dateGroup # Constituents(cid)[1].dateGroup
       /\ OutputFor(cid)[1] \in Range(GroupedBids)

\* C17: in a merged BidItem emailIds is the union of the constituents'
\* emailIds without duplicates (first occurrences, in order), while emails and
\* extractions are the concatenations in constituent order, multiplicity
\* kept: their lengths are the sums of the constituents' lengths.
C17_MergedSources ==
  pc = "listed" =>
    \A cid \in MergedClusterIds :
      \A k \in 1..Len(OutputFor(cid)) :
        LET bid == OutputFor(cid)[k]
            parts == Constituents(cid)
            ids == FlatMap([i \in 1..Len(parts) |-> parts[i].emailIds])
        IN /\ Range(bid.emailIds) = Range(ids)
           /\ Cardinality(Range(bid.emailIds)) = Len(bid.emailIds)
           /\ \A i, j \in 1..Len(bid.emailIds) :
                i < j => \E a \in 1..Len(ids) :
                           /\ ids[a] = bid.emailIds[i]
                           /\ \A b \in 1..a : ids[b] # bid.emailIds[j]
           /\ bid.emails = FlatMap([i \in 1..Len(parts) |-> parts[i].emails])
           /\ bid.extractions = FlatMap([i \in 1..Len(parts) |-> parts[i].extractions])
           /\ Len(bid.emails) = SumSeq([i \in 1..Len(parts) |-> Len(parts[i].emails)])
           /\ Len(bid.extractions) = SumSeq([i \in 1..Len(parts) |-> Len(parts[i].extractions)])

\* one email extracted twice in a cluster of three bids: two ids, three emails
C17_Witness ==
  /\ pc = "listed"
  /\ \E cid \in MergedClusterIds :
       /\ Len(Constituents(cid)) = 3
       /\ Len(OutputFor(cid)) = 1
       /\ Len(OutputFor(cid)[1].emailIds) = 2
       /\ Len(OutputFor(cid)[1].emails) = 3
       /\ Len(OutputFor(cid)[1].extractions) = 3

\* the built bids without a cluster, in input order
UnclusteredBuilt == SelectSeq(bidList.built, LAMBDA b : b.cluster = <<>>)

\* C18: the merge returns unchanged every bid that is the only one of its
\* cluster and every bid without a cluster; the unclustered bids come after
\* all cluster-derived bids, in their input order.
C18_PassThrough ==
  pc = "listed" =>
    LET derived == Len(bidList.bids) - Len(UnclusteredBuilt)
    IN /\ derived >= 0
       /\ SubSeq(bidList.bids, derived + 1, Len(bidList.bids)) = UnclusteredBuilt
       /\ \A k \in 1..derived : bidList.bids[k].cluster # <<>>
       /\ \A cid \in SuppliedClusterIds :
            Len(Constituents(cid)) = 1 =>
              /\ OutputFor(cid) = Constituents(cid)
              /\ \E k \in 1..derived : bidList.bids[k] = Constituents(cid)[1]

\* an unclustered bid built before the only bid of a cluster and returned after
\* it, next to a second unclustered bid
C18_Witness ==
  /\ pc = "listed"
  /\ Len(bidList.built) = 3
  /\ bidList.built[1].cluster = <<>>
  /\ bidList.built[2].cluster # <<>>
  /\ bidList.built[3].cluster = <<>>
  /\ bidList.bids = <<bidList.built[2], bidList.built[1], bidList.built[3]>>

\* C19: within every group the items are in ascending order of
\* earliestDueDate, and no item without a date stands before an item with one.
C19_SortedWithinGroup ==
  pc = "listed" =>
    \A g \in 1..Len(bidList.groups) :
      \A i, j \in 1..Len(bidList.groups[g].bids) :
        i < j =>
          LET a == bidList.groups[g].bids[i].earliestDueDate
              b == bidList.groups[g].bids[j].earliestDueDate
          IN /\ (a.kind = "date" /\ b.kind = "date") => a.t <= b.t
             /\ ~(a.kind = "null" /\ b.kind # "null")

\* number of listed items whose dateGroup is one of tags
InGroups(tags) == Len(SelectSeq(GroupedBids, LAMBDA b : b.dateGroup \in tags))

\* C20: in the summary overdueCount and todayCount are the numbers of listed
\* items whose dateGroup is overdue and today (0 without such a group),
\* upcomingCount is the number whose dateGroup is today, tomorrow, this_week,
\* next_week or later, and totalBids = overdueCount + upcomingCount + the
\* number of no_date items.
C20_SummaryCounts ==
  pc = "listed" =>
    /\ bidList.summary.overdueCount = InGroups({"overdue"})
    /\ bidList.summary.todayCount = InGroups({"today"})
    /\ bidList.summary.upcomingCount =
         InGroups({"today", "tomorrow", "this_week", "next_week", "later"})
    /\ bidList.summary.totalBids =
         bidList.summary.overdueCount + bidList.summary.upcomingCount
           + InGroups({"no_date"})

\* an overdue item, an upcoming item that is not due today and an item
\* without a date: there is no group today
C20_Witness ==
  /\ pc = "listed"
  /\ bidList.summary.totalBids = 3
  /\ bidList.summary.overdueCount = 1
  /\ bidList.summary.todayCount = 0
  /\ bidList.summary.upcomingCount = 1
  /\ InGroups({"no_date"}) = 1

\* C21: summary.totalEmails is the number of distinct ids among the emails
\* supplied.
C21_TotalEmailsDistinct ==
  pc = "listed" =>
    bidList.summary.totalEmails =
      Cardinality({parsedEmails[k].id : k \in 1..Len(parsedEmails)})

FieldValues(field) ==
  SelectSeq([k \in 1..Len(emails) |-> emails[k][field]], LAMBDA v : v # Null)

FirstIndex(values, v) == CHOOSE i \in 1..Len(values) :
  values[i] = v /\ \A j \in 1..(i - 1) : values[j] # v

\* null without values; else a most frequent value, first to occur among those
IsModeFirst(values, r) ==
  IF values = <<>> THEN r = Null
  ELSE /\ r \in Range(values)
       /\ \A v \in Range(values) :
            \/ Count(values, v) < Count(values, r)
            \/ Count(values, v) = Count(values, r) /\ FirstIndex(values, r) <= FirstIndex(values, v)

\* C23: each of the five project fields extractClusterInfo returns is null when
\* no member has a value, and otherwise the most frequent of the members'
\* non-null values, the earliest in the member list among equally frequent ones.
C23_ModeFirstOccurrence ==
  pc = "extracted" =>
    /\ IsModeFirst(FieldValues("projectName"), project.name)
    /\ IsModeFirst(FieldValues("projectAddress"), project.address)
    /\ IsModeFirst(FieldValues("generalContractor"), project.generalContractor)
    /\ IsModeFirst(FieldValues("engineer"), project.engineer)
    /\ IsModeFirst(FieldValues("architect"), project.architect)

\* two names twice each, the one that comes first returned while the other is
\* the last member's; no member has an architect
C23_Witness ==
  /\ pc = "extracted"
  /\ Len(emails) = 4
  /\ Count(FieldValues("projectName"), emails[1].projectName) = 2
  /\ Count(FieldValues("projectName"), emails[4].projectName) = 2
  /\ emails[1].projectName # emails[4].projectName
  /\ project.name = emails[1].projectName
  /\ project.architect = Null
  /\ project.address # Null

\* C24: in a handleProcessEmails run during which no other run started, the
\* /api/cluster request is issued and the bid list is set only after every
\* extraction request of the run has settled; and if Cancel was pressed before
\* the extraction finished, no chunk was started after it, clustering was not
\* invoked, the run wrote neither extractions nor bidList, and it ended
\* cancelled with the processing state idle.
C24_CompleteBatchOrCancelled ==
  pc = "page" =>
    \A run \in Range(page.runs) \cup {page.ended} :
      (run.at # "none" /\ ~run.interfered) =>
           /\ run.clusterIssued => run.unsettledAtCluster = 0 /\ run.completed = page.n
           /\ run.at = "clustering" => run.pending = 0
           /\ run.wroteBidList => run.clusterIssued
           /\ run.cancelPressed =>
                /\ ~run.chunkAfterCancel
                /\ ~run.clusterIssued
                /\ ~run.wroteExtractions
                /\ ~run.wroteBidList
                /\ run.at = "ended" => run.outcome = "cancelled" /\ run.endStage = "idle"

\* a run over more than one chunk cancelled during its first chunk and ended,
\* and nothing else was ever started
C24_Witness ==
  /\ pc = "page"
  /\ page.n > MAX_CONCURRENT
  /\ page.runsStarted = 1
  /\ page.singlesStarted = 0
  /\ page.ended.cancelPressed
  /\ page.ended.outcome = "cancelled"
  /\ page.ended.completed = MAX_CONCURRENT
  /\ page.stage = "idle"
  /\ page.extractions = PreviousValue
  /\ page.bidList = PreviousValue

(***************************************************************************)
(* Properties of the extraction fan-out and of the processing state        *)
(***************************************************************************)
RECURSIVE PendingRequests(_)
\* the /api/extract requests of the chunks that have not settled
PendingRequests(runs) ==
  IF runs = <<>> THEN 0
  ELSE (IF Head(runs).at = "extracting" THEN Head(runs).pending ELSE 0)
       + PendingRequests(Tail(runs))

\* the /api/extract requests in flight: those of the chunks and those of the
\* single-email runs
RequestsInFlight == PendingRequests(page.runs) + Len(page.singles)

\* C25: at no moment are more than 15 /api/extract requests in flight, for
\* every interleaving of Process All clicks, per-email Process clicks, request
\* completions and failures; a failed extraction does not abort the remaining
\* requests of the batch, and the progress counter reaches the batch size.
C25_BoundedFanOut ==
  pc = "page" =>
    /\ RequestsInFlight <= MAX_CONCURRENT
    /\ \A run \in Range(page.runs) \cup {page.ended} :
         run.clusterIssued => run.completed = page.n

(***************************************************************************)
(* Properties of the merged deadline and of the merged email ids           *)
(***************************************************************************)
\* a is not later than b (a.getTime() > b.getTime() is false, as it is when
\* one of the two is an Invalid Date)
NotLater(a, b) == ~(a.kind = "date" /\ b.kind = "date" /\ a.t > b.t)

\* C26: for every cluster merged from bids built by createBidFromExtraction,
\* if some constituent has a non-null earliestDueDate then the merged bid's
\* earliestDueDate is non-null and not later than that of any constituent.
C26_MergeKeepsDeadline ==
  pc = "listed" =>
    \A cid \in MergedClusterIds :
      \A k \in 1..Len(OutputFor(cid)) :
        LET bid == OutputFor(cid)[k]
            deadlines == {Constituents(cid)[i].earliestDueDate : i \in 1..Len(Constituents(cid))}
                           \ {NullDate}
        IN deadlines # {} =>
             /\ bid.earliestDueDate # NullDate
             /\ \A d \in deadlines : NotLater(bid.earliestDueDate, d)

(***************************************************************************)
(* Monotonicity of the classifier                                          *)
(***************************************************************************)
\* C27: for a fixed now the group of a date never ranks before the group of
\* an earlier date: for non-null due dates d1 <= d2,
\* DateGroupPriority[getDateGroup(d1)] <= DateGroupPriority[getDateGroup(d2)].
C27_MonotoneInDate ==
  (pc = "classified" /\ dueDate.kind = "date") =>
    \A earlier \in DueDateValues :
      (earlier.kind = "date" /\ earlier.t <= dueDate.t) =>
        DateGroupPriority[getDateGroup(earlier, now)] <= DateGroupPriority[dateGroup]

(***************************************************************************)
(* Conservation of the email ids by the merge                              *)
(***************************************************************************)
EmailIdsOf(bid) == Range(bid.emailIds)

\* no email id is carried by two of the bids
DisjointEmailIds(bids) ==
  \A i, j \in 1..Len(bids) : i # j => EmailIdsOf(bids[i]) \cap EmailIdsOf(bids[j]) = {}

\* C28: for built bids with pairwise disjoint emailIds, every email id of
\* every built bid is in the emailIds of exactly one output bid, the output
\* carries no other email id, and the number of output bids is the number of
\* distinct cluster ids among the built bids plus the number of built bids
\* without a cluster.
C28_EmailIdsConserved ==
  (pc = "listed" /\ DisjointEmailIds(bidList.built)) =>
    /\ \A k \in 1..Len(bidList.built) :
         \A id \in EmailIdsOf(bidList.built[k]) :
           Cardinality({j \in 1..Len(bidList.bids) : id \in EmailIdsOf(bidList.bids[j])}) = 1
    /\ \A j \in 1..Len(bidList.bids) :
         \A id \in EmailIdsOf(bidList.bids[j]) :
           \E k \in 1..Len(bidList.built) : id \in EmailIdsOf(bidList.built[k])
    /\ Len(bidList.bids) =
         Cardinality({bidList.built[k].cluster[1].id :
                        k \in {i \in 1..Len(bidList.built) : bidList.built[i].cluster # <<>>}})
         + Len(SelectSeq(bidList.built, LAMBDA b : b.cluster = <<>>))

\* three built bids: two of one cluster merged into a bid with both email ids,
\* and one without a cluster passed through
C28_Witness ==
  /\ pc = "listed"
  /\ Len(bidList.built) = 3
  /\ DisjointEmailIds(bidList.built)
  /\ Len(bidList.bids) = 2
  /\ Cardinality(EmailIdsOf(bidList.bids[1])) = 2
  /\ bidList.bids[1].cluster # <<>>
  /\ bidList.bids[2].cluster = <<>>

(***************************************************************************)
(* One batch run at a time                                                 *)
(***************************************************************************)
\* C29: at most one handleProcessEmails run is in flight at a time, and from
\* the start of a run until it completes, fails or is cancelled the processing
\* stage is extracting or clustering, for every timing of the clicks and of
\* the reset timers of earlier batch and single-email runs.
C29_OneRunInFlight ==
  pc = "page" =>
    /\ Len(page.runs) <= 1
    /\ page.runs # <<>> => page.stage \in ProcessingStages

(***************************************************************************)
(* The disjoint-set forest                                                 *)
(***************************************************************************)
\* the key the parent pointers lead to from x, nothing re-pointed
RootOf(f, x) == LET path == UFPath(f, x, Len(f.keys)) IN path[Len(path)]

\* every parent is a key, and the chain from every key ends, within as many
\* steps as there are keys, at a key that is its own parent
ValidForest(f) ==
  /\ Len(f.parent) = Len(f.keys) /\ Len(f.rank) = Len(f.keys)
  /\ \A i, j \in 1..Len(f.keys) : f.keys[i] = f.keys[j] => i = j
  /\ \A x \in Range(f.keys) :
       /\ UFParent(f, x) \in Range(f.keys)
       /\ UFParent(f, RootOf(f, x)) = RootOf(f, x)

SetOf(f, x) == {k \in Range(f.keys) : RootOf(f, k) = RootOf(f, x)}
SetsOf(f) == {SetOf(f, x) : x \in Range(f.keys)}

\* the object once find or union has registered the keys it was called with
Registered == UFAdd(UFAdd(uf.before, uf.x), uf.y)

\* C30: after any sequence of find and union calls the parent chains reach a
\* self-parent root without cycling; find(x) returns the root of x and changes
\* no set's membership, re-pointing keys only to their own root; union(x, y)
\* merges exactly the sets of x and y, the lower-rank root going under the
\* higher-rank one, and leaves every other set unchanged.
C30_DisjointSetForest ==
  pc = "union-find" =>
    /\ ValidForest(uf.forest)
    /\ uf.op = "find" =>
         /\ uf.root = RootOf(Registered, uf.x)
         /\ uf.forest.keys = Registered.keys
         /\ uf.forest.rank = Registered.rank
         /\ SetsOf(uf.forest) = SetsOf(Registered)
         /\ \A k \in Range(Registered.keys) :
              \/ UFParent(uf.forest, k) = UFParent(Registered, k)
              \/ UFParent(uf.forest, k) = RootOf(Registered, k)
    /\ uf.op = "union" =>
         LET rootX == RootOf(Registered, uf.x)
             rootY == RootOf(Registered, uf.y)
             setX == SetOf(Registered, uf.x)
             setY == SetOf(Registered, uf.y)
         IN /\ uf.forest.keys = Registered.keys
            /\ SetsOf(uf.forest) = (SetsOf(Registered) \ {setX, setY}) \cup {setX \cup setY}
            /\ (rootX # rootY /\ UFRank(Registered, rootX) < UFRank(Registered, rootY))
                 => RootOf(uf.forest, uf.x) = rootY /\ UFParent(uf.forest, rootX) = rootY
            /\ (rootX # rootY /\ UFRank(Registered, rootX) > UFRank(Registered, rootY))
                 => RootOf(uf.forest, uf.y) = rootX /\ UFParent(uf.forest, rootY) = rootX
            /\ rootX = rootY => uf.forest.rank = Registered.rank

\* union(x, y) with the root of x of lower rank than the root of y: the root
\* of x goes under the root of y, and a third set is left alone
C30_Witness ==
  /\ pc = "union-find"
  /\ uf.op = "union"
  /\ RootOf(Registered, uf.x) # RootOf(Registered, uf.y)
  /\ UFRank(Registered, RootOf(Registered, uf.x)) < UFRank(Registered, RootOf(Registered, uf.y))
  /\ UFParent(uf.forest, RootOf(Registered, uf.x)) = RootOf(Registered, uf.y)
  /\ Cardinality(SetsOf(uf.before)) = 3
  /\ Cardinality(SetsOf(uf.forest)) = 2

====
